---- MODULE Spec2Model ----
(***************************************************************************)
(* Verification model of the CodeMind agent extension:                     *)
(*   - the sectioned-markdown strict parsers (markdown-parser),            *)
(*   - parseMarkdownWithTechnician / DelimiterTechnician (tiers 1 and 2),  *)
(*   - OrchestratorAgent.planOperations with its lenient extractor,        *)
(*     normalizer (validateAndRepairPlan) and fallback plan.               *)
(*                                                                         *)
(* Texts are sequences of lines; a line is a record [k, n, v]:             *)
(*   k = "h2"     a "## <n>" header line                                   *)
(*   k = "h3"     a "### <n>" header line                                  *)
(*   k = "h4"     a "#### <n>" header line                                 *)
(*   k = "bullet" a "- item" line, v identifies the item                   *)
(*   k = "field"  a "**<n>:** <v>" line, v the number in hundredths,       *)
(*                v = NoNum when the value is not numeric                  *)
(*   k = "fence"  a "```" line                                             *)
(*   k = "blank"  an empty line                                            *)
(*   k = "junk"   any other line                                           *)
(* Numbers with decimals are kept in hundredths (0.8 is 80, 7.0 is 700).   *)
(* An optional value is a sequence of length 0 (undefined) or 1.           *)
(***************************************************************************)
EXTENDS Integers, Sequences, FiniteSets, TLC

\* ------------------------------------------------------------------ bounds
MaxLines == 3
MaxRepairLines == 1
MaxSteps == 2
MaxRepairSteps == 1
MaxListed == 1
MaxLenientLines == 3
MaxTranscripts == 2
MaxPathLen == 4
MaxOutput == 2
MaxRequests == 2
MaxPanelLines == 2
MaxWaits == 1
MaxIterations == 3

NoNum == 0 - 1

\* ------------------------------------------------------- generic helpers
SeqsUpTo(S, n) == UNION {[1..k -> S] : k \in 0..n}

Range(s) == {s[i] : i \in 1..Len(s)}

Idx(s, P(_)) == {i \in 1..Len(s) : P(s[i])}

Min(S) == CHOOSE x \in S : \A y \in S : x <= y

\* Subsequence of s made of the elements at the positions in I, in order
RECURSIVE Pick(_, _, _)
Pick(s, I, i) ==
  IF i > Len(s) THEN <<>>
  ELSE IF i \in I THEN <<s[i]>> \o Pick(s, I, i + 1)
  ELSE Pick(s, I, i + 1)

Line(k, n, v) == [k |-> k, n |-> n, v |-> v]

\* -------------------------------------------------------- markdown parser
\* extractMarkdown: interior of the first fenced block, else the whole text
extractMarkdown(text) ==
  LET fences == Idx(text, LAMBDA l : l.k = "fence")
  IN  IF Cardinality(fences) >= 2
      THEN LET a == Min(fences)
               b == Min(fences \ {a})
           IN  SubSeq(text, a + 1, b - 1)
      ELSE text

\* End of a section body that starts at line 'from': the body always holds
\* line 'from' and runs up to the line before the next "\n##" or the end.
RECURSIVE BodyEnd(_, _, _)
BodyEnd(content, i, stops) ==
  IF i + 1 > Len(content) THEN i
  ELSE IF content[i + 1].k \in stops THEN i
  ELSE BodyEnd(content, i + 1, stops)

\* content.match(/<hdr>\s*\n([\s\S]*?)(?=\n##|\n###|$)/i): the body of the
\* first header whose level is in 'lvls' (the pattern is not anchored, so
\* "###" also matches inside "####"), named in 'names', with a line after it
SectionBody(content, lvls, names, stops) ==
  LET hs == {i \in 1..Len(content) :
               /\ content[i].k \in lvls
               /\ content[i].n \in names
               /\ i < Len(content)}
  IN  IF hs = {} THEN [found |-> FALSE, body |-> <<>>]
      ELSE LET h == Min(hs)
           IN  [found |-> TRUE,
                body |-> SubSeq(content, h + 1, BodyEnd(content, h + 1, stops))]

\* the /^\s*[-*]\s+(.+)$/gm lines of a body, in order
BulletsIn(body) ==
  LET ix == Idx(body, LAMBDA l : l.k = "bullet")
      picked == Pick(body, ix, 1)
  IN  [i \in 1..Len(picked) |-> picked[i].v]

H3Stops == {"h2", "h3", "h4"}

ListSection(content, names) ==
  LET m == SectionBody(content, {"h3", "h4"}, names, H3Stops)
  IN  IF m.found THEN BulletsIn(m.body) ELSE <<>>

\* content.match(/\*\*<name>:\*\*\s*([0-9.]+)/i): first field line of that
\* name whose value is numeric
NumberField(content, name) ==
  LET fs == {i \in 1..Len(content) :
               /\ content[i].k = "field"
               /\ content[i].n = name
               /\ content[i].v # NoNum}
  IN  IF fs = {} THEN <<>> ELSE <<content[Min(fs)].v>>

\* content.match(/\*\*<name>:\*\*\s*(.+?)(?=\n\*\*|$)/is): first field line
\* of that name, any value
TextField(content, name) ==
  LET fs == {i \in 1..Len(content) :
               /\ content[i].k = "field"
               /\ content[i].n = name}
  IN  IF fs = {} THEN <<>> ELSE <<content[Min(fs)].v>>

OrDefault(opt, d) == IF opt = <<>> THEN d ELSE opt[1]

IssueLabels == {"Type", "Description", "Fix", "Impact", "Line"}

\* The labels recognised in one block: the 'issue' object of extractIssueBlocks
IssueOf(block) ==
  {l.n : l \in {x \in Range(block) : x.k = "field" /\ x.n \in IssueLabels}}

\* extractIssueBlocks: content.split(/\n\s*\n/), one issue per block that has
\* at least one recognised label; 'cur' is the block being collected
RECURSIVE IssueBlocks(_, _, _)
IssueBlocks(body, i, cur) ==
  LET flush == IF IssueOf(cur) = {} THEN <<>> ELSE <<IssueOf(cur)>>
  IN  IF i > Len(body) THEN flush
      ELSE IF body[i].k = "blank" THEN flush \o IssueBlocks(body, i + 1, <<>>)
      ELSE IssueBlocks(body, i + 1, Append(cur, body[i]))

extractIssueBlocks(body) == IssueBlocks(body, 1, <<>>)

IssueSection(content, names) ==
  LET m == SectionBody(content, {"h4"}, names, H3Stops)
  IN  IF m.found THEN extractIssueBlocks(m.body) ELSE <<>>

Failure(msg) == [success |-> FALSE, hasData |-> FALSE, data |-> [none |-> TRUE], error |-> msg]

Success(d) == [success |-> TRUE, hasData |-> TRUE, data |-> d, error |-> ""]

\* An input is [isString, lines]; text.match on a non-string throws inside
\* the parser's try block
parseAgentResponse(input) ==
  IF ~input.isString THEN Failure("TypeError")
  ELSE LET content == extractMarkdown(input.lines)
       IN  Success([insights |-> ListSection(content, {"INSIGHTS"}),
                    critical |-> IssueSection(content, {"CRITICAL"}),
                    warnings |-> IssueSection(content, {"WARNING", "WARNINGS"}),
                    suggestions |-> IssueSection(content, {"SUGGESTION", "SUGGESTIONS"}),
                    recommendations |-> ListSection(content, {"RECOMMENDATION", "RECOMMENDATIONS"}),
                    confidence |-> <<OrDefault(NumberField(content, "Confidence"), 80)>>,
                    relevance |-> <<OrDefault(NumberField(content, "Relevance"), 80)>>])

parseODAIObserve(input) ==
  IF ~input.isString THEN Failure("TypeError")
  ELSE LET content == extractMarkdown(input.lines)
       IN  Success([patterns |-> ListSection(content, {"PATTERN", "PATTERNS"}),
                    conflicts |-> ListSection(content, {"CONFLICT", "CONFLICTS"}),
                    gaps |-> ListSection(content, {"GAP", "GAPS"}),
                    qualityScore |-> NumberField(content, "Quality Score")])

parseODAIDistill(input) ==
  IF ~input.isString THEN Failure("TypeError")
  ELSE LET content == extractMarkdown(input.lines)
       IN  Success([coreRequirements |-> ListSection(content, {"CORE REQUIREMENT", "CORE REQUIREMENTS"}),
                    keyConstraints |-> ListSection(content, {"KEY CONSTRAINT", "KEY CONSTRAINTS"}),
                    implementationPrinciples |-> ListSection(content, {"IMPLEMENTATION PRINCIPLE", "IMPLEMENTATION PRINCIPLES"}),
                    qualityScore |-> <<OrDefault(NumberField(content, "Quality Score"), 700)>>,
                    scoringRationale |-> TextField(content, "Scoring Rationale")])

\* ------------------------------------------- parseMarkdownWithTechnician
VARIABLES
  entry,                \* which entry point this run exercises
  mdParser,             \* the 'parser' argument
  mdInput,              \* the 'markdown' argument: [isString, lines]
  mdPc,                 \* "idle", "start", "awaitRepair", "returned"
  mdTier1,              \* result of the direct parse (line 235)
  mdRepair,             \* "none", "pending", "resolved", "rejected", "threwEarly"
  mdReturned,           \* [isNull, data]: the value the promise resolved with
  parserCalls,          \* calls of parser(..)
  repairMarkdownCalls,  \* calls of DelimiterTechnician.repairMarkdown
  generateCalls         \* calls of llmProvider.generate made by the repair

mdVars == <<mdParser, mdInput, mdPc, mdTier1, mdRepair, mdReturned,
            parserCalls, repairMarkdownCalls, generateCalls>>

VARIABLES
  workspaceContext,             \* [platform, workspaceRoot, currentFile]
  planPc,         \* "idle", "start", "awaitPlan", "awaitYamlRepair", "returned", "threw"
  planResponse,   \* response.content: [yaml, text]
  planParsed,     \* what parseYAMLWithTechnician resolved with
  planLenient,    \* "none", "threw", "null", "steps": what extractPlanWithRegex did
  planResult,     \* [tier, plan]: the plan planOperations resolved with
  calls           \* per-tier invocation counts

planVars == <<workspaceContext, planPc, planResponse, planParsed, planLenient, planResult, calls>>

VARIABLES
  recPc,          \* "idle", "start", "awaitAnalysis", "awaitYamlRepair", "returned"
  transcripts,    \* terminalResults: the exit codes, <<>> standing for null
  recResult,      \* [needsRetry, analysis, hasPlan, plan]: the value resolved with
  recParsed,      \* what the analysis request and parseYAMLWithTechnician gave:
                  \* kind "none" (not there yet), "rejected" (the request
                  \* failed), "null", "scalar" or "object"
  recCalls        \* requests to the collaborator: [analysis, repair]

recVars == <<recPc, transcripts, recResult, recParsed, recCalls>>

VARIABLES
  nfPc,           \* "idle", "start", "returned": a call of normalizeFilePath
  nfPath,         \* the 'filePath' argument
  nfContext,      \* the 'workspaceContext' argument
  nfResult        \* the string returned

nfVars == <<nfPc, nfPath, nfContext, nfResult>>

VARIABLES
  vrPc,           \* "idle", "start", "once" or "twice": calls of
                  \* validateAndRepairPlan made on the same arguments
  vrGiven,        \* the arguments as they were when first passed
                  \* (bookkeeping)
  vrArgs,         \* the argument objects as they are now
  vrPlans         \* the plans the calls returned, in call order

vrVars == <<vrPc, vrGiven, vrArgs, vrPlans>>

VARIABLES
  cmd,            \* [timeout]: cmd.timeout in ms, 0 when none is given
  hasCallback,    \* whether onOutput was passed
  childEnds,      \* whether the child process ever closes (environment)
  child,          \* "idle", "none" (not spawned), "running", "closed" or "failed"
  exitCode,       \* the code of the 'close' event, <<>> for null
  timeoutHandle,  \* "none", "armed", "fired" or "cleared"
  timedOut,       \* the flag of line 1156
  emitted,        \* [stdout, stderr]: what the process has written to each
                  \* stream so far, [lines, open]: the number of lines begun
                  \* (lines are numbered from 1) and whether the last of
                  \* them is still unfinished (bookkeeping)
  stdout,         \* the stdout array: numbers of the lines pushed
  stderr,         \* the stderr array
  callbackLog,    \* the onOutput calls made, in order: [type, line]
  outcome         \* how the promise settled: [kind, result, code, timeout]

exVars == <<cmd, hasCallback, childEnds, child, exitCode, timeoutHandle, timedOut,
            emitted, stdout, stderr, callbackLog, outcome>>

VARIABLES
  panel,          \* this.panel: "none" (undefined) or "open"
  currentCommand, \* this.currentCommand: <<>> (undefined) or <<record>> with
                  \* [id, outputLines, isRunning, exitCode, duration]; id is
                  \* the number of the requestApproval call whose resolve
                  \* function the record holds, outputLines holds the
                  \* texts, numbered in call order
  buttons,        \* what the rendered page offers: "none", "decide" (Run
                  \* Command / Reject) or "close"
  requests,       \* the promises of the requestApproval calls, in call
                  \* order: "pending", "true" or "false"
  approvals,      \* ids whose record was current when 'approve' arrived
                  \* (bookkeeping)
  run,            \* what the requester has done since the last approval:
                  \* [id, phase, lines], kept while stray is false
                  \* (bookkeeping)
  stray,          \* whether a panel method was called out of the lifecycle
                  \* order (bookkeeping)
  waiters         \* the waitForUserToClose calls, in call order:
                  \* [state, listening, timer]

panelVars == <<panel, currentCommand, buttons, requests, approvals, run, stray, waiters>>

VARIABLES
  n2Pc,           \* where execute is: "constructed", "agents" (awaiting
                  \* Promise.all), "synthesis" (awaiting synthesize),
                  \* "returned" or "rejected"
  maxIterations,  \* this.maxIterations
  n2I,            \* the loop variable i
  history,        \* the syntheses pushed so far: [success, qualityScore, code]
  currentRepairDirective, \* 0 (undefined) or k, the directive of synthesis k
  n2Result        \* the N2Result returned

n2Vars == <<n2Pc, maxIterations, n2I, history, currentRepairDirective, n2Result>>

vars == <<entry, mdVars, planVars, recVars, nfVars, vrVars, exVars, panelVars, n2Vars>>

otherThanMd == <<planVars, recVars, nfVars, vrVars, exVars, panelVars, n2Vars>>
otherThanPlan == <<entry, mdVars, recVars, nfVars, vrVars, exVars, panelVars, n2Vars>>
otherThanRec == <<entry, mdVars, planVars, nfVars, vrVars, exVars, panelVars, n2Vars>>
otherThanNf == <<entry, mdVars, planVars, recVars, vrVars, exVars, panelVars, n2Vars>>
otherThanVr == <<entry, mdVars, planVars, recVars, nfVars, exVars, panelVars, n2Vars>>
otherThanEx == <<entry, mdVars, planVars, recVars, nfVars, vrVars, panelVars, n2Vars>>
otherThanPanel == <<entry, mdVars, planVars, recVars, nfVars, vrVars, exVars, n2Vars>>
otherThanN2 == <<entry, mdVars, planVars, recVars, nfVars, vrVars, exVars, panelVars>>

NoData == [none |-> TRUE]
NullValue == [isNull |-> TRUE, data |-> NoData]
Value(d) == [isNull |-> FALSE, data |-> d]

ParserKinds == {"agent", "observe", "distill", "custom"}

\* Sample lines the inputs are built from
MdLines ==
  { Line("h3", "INSIGHTS", 0), Line("h3", "PATTERNS", 0),
    Line("h3", "CORE REQUIREMENTS", 0), Line("bullet", "", 1),
    Line("field", "Confidence", 92), Line("field", "Quality Score", 850),
    Line("fence", "", 0), Line("junk", "", 0) }

StringInput(ls) == [isString |-> TRUE, lines |-> ls]
NonString == [isString |-> FALSE, lines |-> <<>>]

MdInputs == {StringInput(ls) : ls \in SeqsUpTo(MdLines, MaxLines)} \cup {NonString}
RepairResponses == {StringInput(ls) : ls \in SeqsUpTo(MdLines, MaxRepairLines)} \cup {NonString}

\* A caller-supplied parser does not look into its argument in this model,
\* so its inputs are distinguished only by being empty, non-empty or no string
CustomInputs == {StringInput(<<>>), StringInput(<<Line("junk", "", 0)>>), NonString}

\* What a caller-supplied parser may answer (MarkdownParseResult<T>)
CustomResults(input) == {Success([custom |-> "data"]), Failure("custom")}

\* The results parser(md) can have, by parser argument
ParserResults(kind, input) ==
  CASE kind = "agent" -> {parseAgentResponse(input)}
    [] kind = "observe" -> {parseODAIObserve(input)}
    [] kind = "distill" -> {parseODAIDistill(input)}
    [] OTHER -> CustomResults(input)

AcceptedNever(result) == FALSE

\* if (result.success && result.data)
Accepted(result) == result.success /\ result.hasData

\* Lines 233-249: direct parse; on failure the technician is constructed and
\* repairMarkdown runs up to its await of llmProvider.generate.  Line 41
\* reads malformedMarkdown.length, which throws for a nullish argument
\* before generate is reached; the catch of line 261 then returns null.
MdStart ==
  /\ entry = "md" /\ mdPc = "start"
  /\ \E result \in ParserResults(mdParser, mdInput) :
       /\ mdTier1' = result
       /\ parserCalls' = parserCalls + 1
       /\ IF Accepted(result)
          THEN /\ mdReturned' = Value(result.data)
               /\ mdPc' = "returned"
               /\ UNCHANGED <<mdRepair, repairMarkdownCalls, generateCalls>>
          ELSE /\ repairMarkdownCalls' = repairMarkdownCalls + 1
               /\ IF mdInput.isString
                  THEN /\ generateCalls' = generateCalls + 1
                       /\ mdRepair' = "pending"
                       /\ mdPc' = "awaitRepair"
                       /\ UNCHANGED mdReturned
                  ELSE /\ mdRepair' = "threwEarly"
                       /\ mdReturned' = NullValue
                       /\ mdPc' = "returned"
                       /\ UNCHANGED generateCalls
  /\ UNCHANGED <<entry, mdParser, mdInput, otherThanMd>>

\* A technician that repairs again when the repaired text does not parse
MdRepairResolveRetry ==
  /\ entry = "md" /\ mdPc = "awaitRepair"
  /\ \E response \in RepairResponses :
     IF ~response.isString
     THEN /\ mdRepair' = "rejected"
          /\ mdReturned' = NullValue
          /\ mdPc' = "returned"
          /\ UNCHANGED <<parserCalls, repairMarkdownCalls, generateCalls>>
     ELSE \E result \in ParserResults(mdParser, StringInput(extractMarkdown(response.lines))) :
            /\ parserCalls' = parserCalls + 1
            /\ IF Accepted(result)
               THEN /\ mdRepair' = "resolved"
                    /\ mdReturned' = Value(result.data)
                    /\ mdPc' = "returned"
                    /\ UNCHANGED <<repairMarkdownCalls, generateCalls>>
               ELSE /\ mdRepair' = "pending"
                    /\ repairMarkdownCalls' = repairMarkdownCalls + 1
                    /\ generateCalls' = generateCalls + 1
                    /\ UNCHANGED <<mdReturned, mdPc>>
  /\ UNCHANGED <<entry, mdParser, mdInput, mdTier1, otherThanMd>>

\* Lines 71-74 and 252-267: generate resolved; extractMarkdown(response.content)
\* throws for a non-string content (rethrown at 78, caught at 261); otherwise
\* the repaired text is parsed once and its data or null is returned.
MdRepairResolve ==
  /\ entry = "md" /\ mdPc = "awaitRepair"
  /\ \E response \in RepairResponses :
     IF ~response.isString
     THEN /\ mdRepair' = "rejected"
          /\ mdReturned' = NullValue
          /\ UNCHANGED parserCalls
     ELSE \E result \in ParserResults(mdParser, StringInput(extractMarkdown(response.lines))) :
            /\ mdRepair' = "resolved"
            /\ parserCalls' = parserCalls + 1
            /\ mdReturned' = IF Accepted(result) THEN Value(result.data) ELSE NullValue
  /\ mdPc' = "returned"
  /\ UNCHANGED <<entry, mdParser, mdInput, mdTier1, repairMarkdownCalls, generateCalls, otherThanMd>>

\* A helper without the catch of line 261
MdRepairRejectEscapes ==
  /\ entry = "md" /\ mdPc = "awaitRepair"
  /\ mdRepair' = "rejected"
  /\ mdPc' = "threw"
  /\ UNCHANGED <<entry, mdParser, mdInput, mdTier1, mdReturned, parserCalls,
                 repairMarkdownCalls, generateCalls, otherThanMd>>

\* Lines 76-79 and 261-267: generate rejected; repairMarkdown throws, the
\* helper catches and returns null.
MdRepairReject ==
  /\ entry = "md" /\ mdPc = "awaitRepair"
  /\ mdRepair' = "rejected"
  /\ mdReturned' = NullValue
  /\ mdPc' = "returned"
  /\ UNCHANGED <<entry, mdParser, mdInput, mdTier1, parserCalls, repairMarkdownCalls,
                 generateCalls, otherThanMd>>

MdInit ==
  /\ mdParser \in ParserKinds
  /\ mdInput \in IF mdParser = "custom" THEN CustomInputs ELSE MdInputs
  /\ mdPc = "start"
  /\ mdTier1 = Failure("not run")
  /\ mdRepair = "none"
  /\ mdReturned = NullValue
  /\ parserCalls = 0
  /\ repairMarkdownCalls = 0
  /\ generateCalls = 0

MdIdle ==
  /\ mdParser = "custom"
  /\ mdInput = NonString
  /\ mdPc = "idle"
  /\ mdTier1 = Failure("not run")
  /\ mdRepair = "none"
  /\ mdReturned = NullValue
  /\ parserCalls = 0
  /\ repairMarkdownCalls = 0
  /\ generateCalls = 0

\* ------------------------------------------------------------------ paths
\* A path string is a sequence of tokens: "/" and "\\" (one backslash) are
\* the separator characters, "." a dot, "C:" a drive prefix, anything else
\* a letter of a file or directory name; the tokens between two separators
\* form one segment, so <<".", ".">> is the segment "..".  "" is <<>>.
Drives == {"C:", "D:"}
CwdDrive == "C:"

Seps(platform) == IF platform = "win32" THEN {"/", "\\"} ELSE {"/"}

\* path.isAbsolute
isAbsolute(platform, p) ==
  /\ Len(p) > 0
  /\ \/ p[1] \in Seps(platform)
     \/ /\ platform = "win32"
        /\ p[1] \in Drives
        /\ Len(p) > 1
        /\ p[2] \in Seps(platform)

\* The segments of p between separators, empty segments dropped
RECURSIVE Split(_, _, _, _)
Split(p, seps, i, cur) ==
  LET flush == IF cur = <<>> THEN <<>> ELSE <<cur>>
  IN  IF i > Len(p) THEN flush
      ELSE IF p[i] \in seps THEN flush \o Split(p, seps, i + 1, <<>>)
      ELSE Split(p, seps, i + 1, Append(cur, p[i]))

\* normalizeString: "." dropped, ".." removes the segment before it
RECURSIVE Resolve(_, _, _)
Resolve(segs, i, acc) ==
  IF i > Len(segs) THEN acc
  ELSE IF segs[i] = <<".">> THEN Resolve(segs, i + 1, acc)
  ELSE IF segs[i] = <<".", ".">>
       THEN Resolve(segs, i + 1, IF acc = <<>> THEN acc ELSE SubSeq(acc, 1, Len(acc) - 1))
  ELSE Resolve(segs, i + 1, Append(acc, segs[i]))

RECURSIVE Join(_, _)
Join(segs, sep) ==
  IF segs = <<>> THEN <<>>
  ELSE IF Len(segs) = 1 THEN segs[1]
  ELSE segs[1] \o <<sep>> \o Join(Tail(segs), sep)

RECURSIVE CommonPrefix(_, _)
CommonPrefix(a, b) ==
  IF a = <<>> \/ b = <<>> THEN 0
  ELSE IF a[1] = b[1] THEN 1 + CommonPrefix(Tail(a), Tail(b))
  ELSE 0

Device(platform, p) ==
  IF platform = "win32" /\ Len(p) > 0 /\ p[1] \in Drives THEN p[1] ELSE CwdDrive

Body(platform, p) ==
  IF platform = "win32" /\ Len(p) > 0 /\ p[1] \in Drives THEN Tail(p) ELSE p

\* path.relative(from, to) for absolute arguments
relative(platform, from, to) ==
  LET sep == IF platform = "win32" THEN "\\" ELSE "/"
      fs == Resolve(Split(Body(platform, from), Seps(platform), 1, <<>>), 1, <<>>)
      ts == Resolve(Split(Body(platform, to), Seps(platform), 1, <<>>), 1, <<>>)
      c == CommonPrefix(fs, ts)
      ups == [i \in 1..(Len(fs) - c) |-> <<".", ".">>]
  IN  IF platform = "win32" /\ Device(platform, from) # Device(platform, to)
      THEN <<Device(platform, to), sep>> \o Join(ts, sep)
      ELSE Join(ups \o SubSeq(ts, c + 1, Len(ts)), sep)

\* String.replace(/^\.\//, '') and String.replace(/^\.\\/, '')
StripPrefix(p, sep) ==
  IF Len(p) >= 2 /\ p[1] = "." /\ p[2] = sep THEN SubSeq(p, 3, Len(p)) ELSE p

\* String.replace(/\\/g, '/')
ForwardSlashes(p) == [i \in 1..Len(p) |-> IF p[i] = "\\" THEN "/" ELSE p[i]]

\* OrchestratorAgent.normalizeFilePath; ws is the workspace context
\* [platform, workspaceRoot, currentFile], an absent root or file being <<>>
normalizeFilePath(filePath, ws) ==
  IF filePath = <<>> THEN <<>>
  ELSE IF ws.workspaceRoot = <<>> THEN filePath
  ELSE IF ~isAbsolute(ws.platform, filePath)
       THEN StripPrefix(StripPrefix(filePath, "/"), "\\")
  ELSE ForwardSlashes(relative(ws.platform, ws.workspaceRoot, filePath))

\* A single call of normalizeFilePath on sample arguments
PathTokens == {"/", "\\", ".", "C:", "r", "a"}

PathContexts ==
  {[platform |-> "posix", workspaceRoot |-> <<"/", "r">>, currentFile |-> <<>>],
   [platform |-> "win32", workspaceRoot |-> <<"C:", "\\", "r">>, currentFile |-> <<>>],
   [platform |-> "posix", workspaceRoot |-> <<>>, currentFile |-> <<>>]}

\* Paths that start with two separators name a network share on win32;
\* they are left out of the sample arguments, and so are paths with a
\* drive prefix anywhere but at the start
IsShare(platform, p) ==
  platform = "win32" /\ Len(p) >= 2 /\ p[1] \in Seps(platform) /\ p[2] \in Seps(platform)

NormalizeCall ==
  /\ entry = "normalize" /\ nfPc = "start"
  /\ nfResult' = normalizeFilePath(nfPath, nfContext)
  /\ nfPc' = "returned"
  /\ UNCHANGED <<nfPath, nfContext>> /\ UNCHANGED otherThanNf

NfInit ==
  /\ nfPc = "start"
  /\ nfContext \in PathContexts
  /\ \E k \in 0..MaxPathLen : nfPath \in [1..k -> PathTokens]
  /\ ~IsShare(nfContext.platform, nfPath)
  /\ \A i \in 2..Len(nfPath) : nfPath[i] \notin Drives
  /\ nfResult = <<>>

NfIdle ==
  /\ nfPc = "idle"
  /\ nfPath = <<>>
  /\ nfContext = [platform |-> "posix", workspaceRoot |-> <<>>, currentFile |-> <<>>]
  /\ nfResult = <<>>

\* ------------------------------------------------------- execution plans
\* A raw step of the parsed record: hasOp says whether it is an object with
\* a truthy 'operation', opObject whether that operation is an object (a
\* truthy scalar such as the string 'delete' has no fields); an absent or empty string is <<>> (paths) or ""
\* (type); an absent or non-numeric priority is <<>>; 'src' is the step's
\* position in the collaborator output (bookkeeping, not program state).
RawStep(hasOp, filePath, opFilePath, type, priority, approval) ==
  [hasOp |-> hasOp, opObject |-> hasOp, filePath |-> filePath, opFilePath |-> opFilePath,
   type |-> type, priority |-> priority, requiresApproval |-> approval, src |-> 0]

TaskTypes == {"code_generation", "refactoring", "bug_fix", "feature_add",
              "documentation", "testing", "optimization", "security", "general"}

\* toLowerCase of the sample spellings, with '-' replaced by '_'
Canonical(str) ==
  CASE str = "Bug-Fix" -> "bug_fix"
    [] str = "REFACTORING" -> "refactoring"
    [] OTHER -> str

\* OrchestratorAgent.parseTaskType
parseTaskType(taskTypeStr) ==
  IF Canonical(taskTypeStr) \in TaskTypes THEN Canonical(taskTypeStr) ELSE "general"

UnknownName(index) == <<"unknown-" \o ToString(index)>>

FirstTruthy(a, b, c) == IF a # <<>> THEN a ELSE IF b # <<>> THEN b ELSE c

\* A normalization that numbers a step by its position in the parsed record
NormalizeStepBySource(step, index, ws) ==
  LET filePath == normalizeFilePath(
                    FirstTruthy(step.filePath, step.opFilePath, UnknownName(index)), ws)
  IN  [filePath |-> filePath,
       operation |-> [type |-> IF step.type = "" THEN "modify" ELSE step.type,
                      filePath |-> filePath,
                      requiresApproval |-> IF step.requiresApproval = "false" THEN "false" ELSE "true"],
       priority |-> IF step.priority = <<>> THEN step.src ELSE step.priority[1],
       src |-> step.src]

\* The .map callback of lines 756-779; index is the position in the
\* filtered array
NormalizeStep(step, index, ws) ==
  LET filePath == normalizeFilePath(
                    FirstTruthy(step.filePath, step.opFilePath, UnknownName(index)), ws)
  IN  [filePath |-> filePath,
       operation |-> [type |-> IF step.type = "" THEN "modify" ELSE step.type,
                      filePath |-> filePath,
                      requiresApproval |-> IF step.requiresApproval = "false" THEN "false" ELSE "true"],
       priority |-> IF step.priority = <<>> THEN index + 1 ELSE step.priority[1],
       src |-> step.src]

\* An insertion that places a step before the steps of equal priority
RECURSIVE InsertBeforeEqual(_, _)
InsertBeforeEqual(sorted, x) ==
  IF sorted = <<>> THEN <<x>>
  ELSE IF sorted[Len(sorted)].priority < x.priority THEN Append(sorted, x)
  ELSE Append(InsertBeforeEqual(SubSeq(sorted, 1, Len(sorted) - 1), x), sorted[Len(sorted)])

\* Array.prototype.sort((a, b) => a.priority - b.priority): stable
RECURSIVE InsertByPriority(_, _)
InsertByPriority(sorted, x) ==
  IF sorted = <<>> THEN <<x>>
  ELSE IF sorted[Len(sorted)].priority <= x.priority THEN Append(sorted, x)
  ELSE Append(InsertByPriority(SubSeq(sorted, 1, Len(sorted) - 1), x), sorted[Len(sorted)])

RECURSIVE SortFrom(_, _, _)
SortFrom(steps, i, acc) ==
  IF i > Len(steps) THEN acc
  ELSE SortFrom(steps, i + 1, InsertByPriority(acc, steps[i]))

Unsorted(steps) == steps

SortByPriority(steps) == SortFrom(steps, 1, <<>>)

PushNothing(affected, steps, i) == affected

\* stepFiles.forEach(file => { if (!affectedFiles.includes(file)) push })
RECURSIVE PushMissing(_, _, _)
PushMissing(affected, steps, i) ==
  IF i > Len(steps) THEN affected
  ELSE IF steps[i].operation.type # "terminal" /\ steps[i].filePath \notin Range(affected)
       THEN PushMissing(Append(affected, steps[i].filePath), steps, i + 1)
  ELSE PushMissing(affected, steps, i + 1)

NormalizeList(isArray, list, ws) ==
  IF isArray THEN [i \in 1..Len(list) |-> normalizeFilePath(list[i], ws)] ELSE <<>>

\* OrchestratorAgent.validateAndRepairPlan
validateAndRepairPlan(parsed, taskAnalysis, ws) ==
  LET kept == IF parsed.stepsIsArray
              THEN Pick(parsed.steps, {i \in 1..Len(parsed.steps) : parsed.steps[i].hasOp}, 1)
              ELSE <<>>
      mapped == [i \in 1..Len(kept) |-> NormalizeStep(kept[i], i - 1, ws)]
      sorted == SortByPriority(mapped)
      listed == NormalizeList(parsed.affectedIsArray, parsed.affectedFiles, ws)
  IN  [taskType |-> parseTaskType(IF parsed.taskType # "" THEN parsed.taskType ELSE taskAnalysis.taskType),
       steps |-> sorted,
       requiredFiles |-> NormalizeList(parsed.requiredIsArray, parsed.requiredFiles, ws),
       affectedFiles |-> PushMissing(listed, sorted, 1),
       confidence |-> IF parsed.confidence = <<>> THEN 70 ELSE parsed.confidence[1],
       risks |-> <<>>]

\* OrchestratorAgent.createFallbackPlan
createFallbackPlan(taskAnalysis, ws) ==
  LET currentFile == ws.currentFile
  IN  [taskType |-> parseTaskType(taskAnalysis.taskType),
       steps |-> IF currentFile # <<>>
                 THEN <<[filePath |-> currentFile,
                         operation |-> [type |-> "modify", filePath |-> currentFile,
                                        requiresApproval |-> "unset"],
                         priority |-> 1,
                         src |-> 0]>>
                 ELSE <<>>,
       requiredFiles |-> IF currentFile # <<>> THEN <<currentFile>> ELSE <<>>,
       affectedFiles |-> IF currentFile # <<>> THEN <<currentFile>> ELSE <<>>,
       confidence |-> 50,
       risks |-> <<"Plan generation failed - using fallback single-file operation">>]

\* --------------------------------------- validateAndRepairPlan, called twice
\* The arguments of a call: the parsed record, the task analysis and the
\* workspace context, objects the caller keeps
Arguments(parsed, taskAnalysis, ws) ==
  [parsed |-> parsed, taskAnalysis |-> taskAnalysis, workspaceContext |-> ws]

\* A normalizer whose affectedFiles is the array of the parsed record
\* itself, so that the push of line 793 lands in the record
ArgumentsAfterPush(args) ==
  LET plan == validateAndRepairPlan(args.parsed, args.taskAnalysis, args.workspaceContext)
  IN  [args EXCEPT !.parsed.affectedFiles =
         IF args.parsed.affectedIsArray THEN plan.affectedFiles ELSE @]

\* Lines 740-797, the effect on the argument objects: plan is a new object;
\* its requiredFiles, affectedFiles and steps are arrays made by .map (or
\* the literal []), so the in-place sort of line 783 and the push of line
\* 793 act on arrays the arguments do not hold; nothing is assigned to
\* parsed, taskAnalysis, workspaceContext or this
ArgumentsAfter(args) == args

\* ------------------------------------------------------ lenient extractor
\* The raw response as the lenient patterns see it, a sequence of lines
\* [k, p, t, v]:
\*   k = "item"       "  - filePath: <p>"   (start of a list item)
\*   k = "fp"         "      filePath: <p>" (any other filePath: anchor)
\*   k = "anchor"     "      filePath:"     (nothing after it on the line)
\*   k = "type"       "type: <t>"
\*   k = "command"    "command: <t>"
\*   k = "rationale"  "rationale: <t>"
\*   k = "confidence" "confidence: <v>"
\*   k = "taskType"   "taskType: <t>"
\*   k = "other"      a line none of the patterns matches
LLine(k, p, t, v) == [k |-> k, p |-> p, t |-> t, v |-> v]

FirstOf(block, kind, default) ==
  LET ix == Idx(block, LAMBDA l : l.k = kind)
  IN  IF ix = {} THEN default ELSE block[Min(ix)].t

\* Lines 251-257: the span from an anchor to the next "\n\s+-\s+filePath:"
StepBlock(text, i) ==
  LET from == IF text[i].k = "anchor" THEN i + 2 ELSE i + 1
      nexts == {j \in from..Len(text) : text[j].k = "item"}
  IN  SubSeq(text, i, IF nexts = {} THEN Len(text) ELSE Min(nexts) - 1)

\* stepBlock.match(/type:\s*(\w+)/): the pattern also matches inside
\* "taskType: <t>"
TypeOf(block) ==
  LET ix == Idx(block, LAMBDA l : l.k \in {"type", "taskType"})
  IN  IF ix = {} THEN "create" ELSE block[Min(ix)].t

\* What an anchor with nothing after it on its line captures as filePath:
\* the whole text of the following line
CapturedLine == <<"captured">>

RegexStep(text, i, filePath, n) ==
  [hasOp |-> TRUE, opObject |-> TRUE, filePath |-> filePath, opFilePath |-> <<>>,
   type |-> TypeOf(StepBlock(text, i)), priority |-> <<n>>,
   requiresApproval |-> "absent", src |-> n]

\* An extraction that starts a step at list items only
RECURSIVE RegexStepsAtItems(_, _, _)
RegexStepsAtItems(text, i, steps) ==
  IF i > Len(text) THEN steps
  ELSE IF text[i].k = "item"
       THEN RegexStepsAtItems(text, i + 1,
                              Append(steps, RegexStep(text, i, text[i].p, Len(steps) + 1)))
  ELSE RegexStepsAtItems(text, i + 1, steps)

\* Lines 247-285: one step per filePath: occurrence, in text order
RECURSIVE RegexSteps(_, _, _)
RegexSteps(text, i, steps) ==
  IF i > Len(text) THEN steps
  ELSE IF text[i].k \in {"item", "fp"}
       THEN RegexSteps(text, i + 1,
                       Append(steps, RegexStep(text, i, text[i].p, Len(steps) + 1)))
  ELSE IF text[i].k = "anchor" /\ i < Len(text)
       THEN RegexSteps(text, i + 2,
                       Append(steps, RegexStep(text, i, CapturedLine, Len(steps) + 1)))
  ELSE RegexSteps(text, i + 1, steps)

NoPlan == [isNull |-> TRUE, plan |-> [none |-> TRUE]]
SomePlan(plan) == [isNull |-> FALSE, plan |-> plan]

\* OrchestratorAgent.extractPlanWithRegex; 'fault' is an exception raised
\* inside its try block, which the catch of line 315 turns into null
extractPlanWithRegex(text, taskAnalysis, ws, fault) ==
  IF fault THEN NoPlan
  ELSE LET steps == RegexSteps(text, 1, <<>>)
           confs == Idx(text, LAMBDA l : l.k = "confidence")
           plan == [taskType |-> FirstOf(text, "taskType", "code_generation"),
                    stepsIsArray |-> TRUE,
                    steps |-> steps,
                    requiredIsArray |-> TRUE,
                    requiredFiles |-> <<>>,
                    affectedIsArray |-> TRUE,
                    affectedFiles |-> [i \in 1..Len(steps) |-> steps[i].filePath],
                    confidence |-> IF confs = {} THEN <<80>> ELSE <<text[Min(confs)].v>>]
       IN  IF steps = <<>> THEN NoPlan
           ELSE SomePlan(validateAndRepairPlan(plan, taskAnalysis, ws))

\* --------------------------------------------------------- planOperations
TaskAnalysis == [taskType |-> "bug_fix", complexity |-> "medium"]

PathA == <<"a">>
PathDotA == <<".", "/", "a">>
PathAbsB == <<"/", "r", "/", "b">>
PathT == <<"t">>
PathBackslash == <<"r", "\\", "a">>
PathDotDotA == <<".", "/", ".", "/", "a">>
Root == <<"/", "r">>

StepPaths == {<<>>, PathA, PathAbsB}
StepTypes == {"", "terminal"}
StepPriorities == {<<>>, <<1>>, <<2>>}
ListedPaths == {PathDotA, PathAbsB}

NoOpStep == RawStep(FALSE, <<>>, <<>>, "", <<>>, "absent")

\* Steps with an operation given as a string, with a relative path written
\* with a backslash or with a doubled './' prefix, with a type outside the
\* operation variants, and with requiresApproval: false
SpecialSteps ==
  {[RawStep(TRUE, PathA, <<>>, "", <<>>, "absent") EXCEPT !.opObject = FALSE],
   RawStep(TRUE, PathBackslash, <<>>, "", <<>>, "absent"),
   RawStep(TRUE, PathDotDotA, <<>>, "", <<>>, "absent"),
   RawStep(TRUE, PathA, <<>>, "update", <<>>, "absent"),
   RawStep(TRUE, PathT, <<>>, "terminal", <<>>, "false")}

RawSteps ==
  {RawStep(TRUE, fp, <<>>, t, pr, "absent") :
     fp \in StepPaths, t \in StepTypes, pr \in StepPriorities}
  \cup {NoOpStep} \cup SpecialSteps

Numbered(steps) == [i \in 1..Len(steps) |-> [steps[i] EXCEPT !.src = i]]

RawRecord(steps, affectedIsArray, affected) ==
  [taskType |-> "", stepsIsArray |-> TRUE, steps |-> Numbered(steps),
   requiredIsArray |-> FALSE, requiredFiles |-> <<>>,
   affectedIsArray |-> affectedIsArray, affectedFiles |-> affected,
   confidence |-> <<>>]

\* The affectedFiles and confidence values of a parsed record: the list is
\* absent or an array, the confidence absent, 0.95 or 1.5
Listings ==
  {[isArray |-> TRUE, list |-> l, confidence |-> <<>>] : l \in SeqsUpTo(ListedPaths, MaxListed)}
  \cup {[isArray |-> FALSE, list |-> <<>>, confidence |-> c] : c \in {<<>>, <<95>>, <<150>>}}

LenientLines ==
  { LLine("item", PathA, "", 0), LLine("item", PathT, "", 0),
    LLine("fp", PathA, "", 0), LLine("type", <<>>, "terminal", 0),
    LLine("anchor", <<>>, "", 0), LLine("confidence", <<>>, "", 150),
    LLine("other", <<>>, "", 0) }

LenientTexts == SeqsUpTo(LenientLines, MaxLenientLines)

NoRecord == [none |-> TRUE]
YamlObject(rec) == [kind |-> "object", rec |-> rec]
YamlScalar == [kind |-> "scalar", rec |-> NoRecord]
YamlNull == [kind |-> "null", rec |-> NoRecord]

\* The steps a repaired response is built from
RepairedSteps ==
  {NoOpStep, RawStep(TRUE, PathA, <<>>, "", <<>>, "absent"),
   RawStep(TRUE, PathT, <<>>, "terminal", <<1>>, "absent")}

RepairedYaml ==
  {YamlObject(RawRecord(steps, FALSE, <<>>)) : steps \in SeqsUpTo(RepairedSteps, MaxRepairSteps)}
  \cup {YamlNull}

WorkspaceContexts ==
  {[platform |-> "posix", workspaceRoot |-> Root, currentFile |-> cf] : cf \in {<<>>, PathAbsB}}

NoCalls == [generate |-> 0, yamlStrict |-> 0, yamlRepair |-> 0, validate |-> 0,
            lenient |-> 0, fallback |-> 0]

NoResult == [tier |-> "none", plan |-> [none |-> TRUE]]

IsRecordNever(parsed) == FALSE

\* if (parsed && typeof parsed === 'object')
IsRecord(parsed) == parsed.kind = "object"

\* if (extracted && extracted.steps.length > 0)
Usable(extracted) == ~extracted.isNull /\ Len(extracted.plan.steps) > 0

\* Lines 205-220: what planOperations does once parseYAMLWithTechnician has
\* resolved with 'parsed'; 'tier' is the tier that resolved it
Escalate(parsed, tier, text, c) ==
  /\ planParsed' = parsed
  /\ planPc' = "returned"
  /\ IF IsRecord(parsed)
     THEN /\ planResult' = [tier |-> tier, plan |-> validateAndRepairPlan(parsed.rec, TaskAnalysis, workspaceContext)]
          /\ planLenient' = "none"
          /\ calls' = [c EXCEPT !.validate = @ + 1]
     ELSE \E fault \in BOOLEAN :
            LET extracted == extractPlanWithRegex(text, TaskAnalysis, workspaceContext, fault)
                validated == IF fault \/ extracted.isNull THEN 0 ELSE 1
            IN  /\ planLenient' = IF fault THEN "threw" ELSE IF extracted.isNull THEN "null" ELSE "steps"
                /\ IF Usable(extracted)
                   THEN /\ planResult' = [tier |-> "lenient", plan |-> extracted.plan]
                        /\ calls' = [c EXCEPT !.lenient = @ + 1, !.validate = @ + validated]
                   ELSE /\ planResult' = [tier |-> "fallback", plan |-> createFallbackPlan(TaskAnalysis, workspaceContext)]
                        /\ calls' = [c EXCEPT !.lenient = @ + 1, !.validate = @ + validated,
                                               !.fallback = @ + 1]

\* Lines 138-172: the planning prompt is sent to the collaborator
PlanGenerate ==
  /\ entry = "plan" /\ planPc = "start"
  /\ planPc' = "awaitPlan"
  /\ calls' = [calls EXCEPT !.generate = @ + 1]
  /\ UNCHANGED <<workspaceContext, planResponse, planParsed, planLenient, planResult>> /\ UNCHANGED otherThanPlan

\* The planning call rejects: planOperations has no handler for it
PlanGenerateReject ==
  /\ entry = "plan" /\ planPc = "awaitPlan"
  /\ planPc' = "threw"
  /\ UNCHANGED <<workspaceContext, planResponse, planParsed, planLenient, planResult, calls>> /\ UNCHANGED otherThanPlan

\* Lines 174-221 with the strict stage of parseYAMLWithTechnician: the
\* response is parsed strictly; an unparsable response is sent for repair
PlanRespond ==
  /\ entry = "plan" /\ planPc = "awaitPlan"
  /\ \E response \in [yaml : {YamlScalar, YamlNull}, text : LenientTexts] :
       /\ planResponse' = response
       /\ IF response.yaml.kind = "null"
          THEN /\ planPc' = "awaitYamlRepair"
               /\ calls' = [calls EXCEPT !.yamlStrict = @ + 1, !.yamlRepair = @ + 1]
               /\ UNCHANGED <<planParsed, planLenient, planResult>>
          ELSE Escalate(response.yaml, "strict", response.text, [calls EXCEPT !.yamlStrict = @ + 1])
  /\ UNCHANGED workspaceContext /\ UNCHANGED otherThanPlan

\* Lines 174-212 when the response is a YAML mapping: the strict parse gives
\* a record at once and the plan is normalized from it
PlanRespondRecord ==
  /\ entry = "plan" /\ planPc = "awaitPlan"
  /\ \E k \in 0..MaxSteps :
       \E steps \in [1..k -> RawSteps], listed \in Listings :
         LET yaml == YamlObject([RawRecord(steps, listed.isArray, listed.list)
                                   EXCEPT !.confidence = listed.confidence])
         IN  /\ planResponse' = [yaml |-> yaml, text |-> <<>>]
             /\ Escalate(yaml, "strict", <<>>, [calls EXCEPT !.yamlStrict = @ + 1])
  /\ UNCHANGED workspaceContext /\ UNCHANGED otherThanPlan

\* The repair call of parseYAMLWithTechnician resolved and the repaired text
\* was parsed strictly once, giving 'repaired'
YamlRepairResolve ==
  /\ entry = "plan" /\ planPc = "awaitYamlRepair"
  /\ \E repaired \in RepairedYaml :
       Escalate(repaired, "repair", planResponse.text, [calls EXCEPT !.yamlStrict = @ + 1])
  /\ UNCHANGED <<workspaceContext, planResponse>> /\ UNCHANGED otherThanPlan

\* The repair call of parseYAMLWithTechnician failed: it resolves with null
YamlRepairReject ==
  /\ entry = "plan" /\ planPc = "awaitYamlRepair"
  /\ Escalate(YamlNull, "repair", planResponse.text, calls)
  /\ UNCHANGED <<workspaceContext, planResponse>> /\ UNCHANGED otherThanPlan

PlanInit ==
  /\ workspaceContext \in WorkspaceContexts
  /\ planPc = "start"
  /\ planResponse = [yaml |-> YamlNull, text |-> <<>>]
  /\ planParsed = YamlNull
  /\ planLenient = "none"
  /\ planResult = NoResult
  /\ calls = NoCalls

PlanIdle ==
  /\ workspaceContext = [platform |-> "posix", workspaceRoot |-> Root, currentFile |-> <<>>]
  /\ planPc = "idle"
  /\ planResponse = [yaml |-> YamlNull, text |-> <<>>]
  /\ planParsed = YamlNull
  /\ planLenient = "none"
  /\ planResult = NoResult
  /\ calls = NoCalls

\* ------------------------------------- two calls of validateAndRepairPlan
\* Steps of the parsed records the two calls are made on
ValidateSteps ==
  SpecialSteps \cup {NoOpStep, RawStep(TRUE, PathA, <<>>, "", <<2>>, "absent"),
                     RawStep(TRUE, PathAbsB, <<>>, "", <<1>>, "absent")}

\* validateAndRepairPlan is called on a parsed record
ValidateFirst ==
  /\ entry = "validate" /\ vrPc = "start"
  /\ \E k \in 0..MaxSteps :
       \E steps \in [1..k -> ValidateSteps], listed \in Listings, ws \in WorkspaceContexts :
         LET args == Arguments([RawRecord(steps, listed.isArray, listed.list)
                                  EXCEPT !.confidence = listed.confidence],
                               TaskAnalysis, ws)
         IN  /\ vrGiven' = args
             /\ vrPlans' = <<validateAndRepairPlan(args.parsed, args.taskAnalysis,
                                                    args.workspaceContext)>>
             /\ vrArgs' = ArgumentsAfter(args)
  /\ vrPc' = "once"
  /\ UNCHANGED otherThanVr

\* validateAndRepairPlan is called again on the same argument objects
ValidateAgain ==
  /\ entry = "validate" /\ vrPc = "once"
  /\ vrPlans' = Append(vrPlans, validateAndRepairPlan(vrArgs.parsed, vrArgs.taskAnalysis,
                                                       vrArgs.workspaceContext))
  /\ vrArgs' = ArgumentsAfter(vrArgs)
  /\ vrPc' = "twice"
  /\ UNCHANGED vrGiven /\ UNCHANGED otherThanVr

NoArguments == Arguments(NoRecord, TaskAnalysis,
                         [platform |-> "posix", workspaceRoot |-> Root, currentFile |-> <<>>])

VrInit ==
  /\ vrPc = "start"
  /\ vrGiven = NoArguments
  /\ vrArgs = NoArguments
  /\ vrPlans = <<>>

VrIdle ==
  /\ vrPc = "idle"
  /\ vrGiven = NoArguments
  /\ vrArgs = NoArguments
  /\ vrPlans = <<>>

\* ------------------------------------------------ analyzeTerminalFailures
\* What parseYAMLWithTechnician resolves with for a failure analysis: null,
\* a non-object value, or an object [needsRetry, hasPlan, plan] where
\* needsRetry is "true", "false" or "absent" and plan is the raw recoveryPlan
AnalysisObject(needsRetry, hasPlan, plan) ==
  [kind |-> "object", rec |-> [needsRetry |-> needsRetry, hasPlan |-> hasPlan, plan |-> plan]]

RecoverySteps ==
  {NoOpStep, RawStep(TRUE, PathA, PathA, "", <<>>, "absent"),
   RawStep(TRUE, PathA, PathA, "terminal", <<1>>, "absent"),
   RawStep(TRUE, PathT, PathT, "terminal", <<2>>, "absent")}

RecoveryRecords ==
  {RawRecord(steps, TRUE, aff) :
     steps \in SeqsUpTo(RecoverySteps, MaxSteps), aff \in SeqsUpTo({PathA, PathT}, MaxListed)}
  \cup {RawRecord(steps, FALSE, <<>>) : steps \in SeqsUpTo(RecoverySteps, MaxSteps)}
  \cup {[RawRecord(<<>>, FALSE, <<>>) EXCEPT !.stepsIsArray = FALSE]}

AnalysisResults ==
  {AnalysisObject(nr, TRUE, plan) : nr \in {"true", "false", "absent"}, plan \in RecoveryRecords}
  \cup {AnalysisObject(nr, FALSE, NoRecord) : nr \in {"true", "false", "absent"}}
  \cup {YamlScalar, YamlNull}

ExitCodes == {<<0>>, <<1>>, <<>>}

NotParsed == [kind |-> "none", rec |-> NoRecord]
Rejected == [kind |-> "rejected", rec |-> NoRecord]
NoRecCalls == [analysis |-> 0, repair |-> 0]

RecNoResult == [needsRetry |-> FALSE, analysis |-> "none", hasPlan |-> FALSE, plan |-> [none |-> TRUE]]

Verdict(needsRetry, analysis) ==
  [needsRetry |-> needsRetry, analysis |-> analysis, hasPlan |-> FALSE, plan |-> [none |-> TRUE]]

\* Lines 1064-1082: the .map callback building a recovery step
RecoveryStep(step, index) ==
  [filePath |-> step.filePath,
   operation |-> [type |-> step.type, filePath |-> step.opFilePath, requiresApproval |-> "unset"],
   priority |-> IF step.priority = <<>> \/ step.priority = <<0>> THEN index + 1 ELSE step.priority[1],
   src |-> step.src]

\* Lines 1091-1094: affectedFiles without the paths of terminal steps
RECURSIVE WithoutTerminal(_, _, _)
WithoutTerminal(affected, steps, i) ==
  IF i > Len(affected) THEN <<>>
  ELSE IF \E k \in 1..Len(steps) :
            steps[k].filePath = affected[i] /\ steps[k].operation.type = "terminal"
       THEN WithoutTerminal(affected, steps, i + 1)
  ELSE <<affected[i]>> \o WithoutTerminal(affected, steps, i + 1)

\* Lines 1061-1094; the caller has checked that every step has an operation
RecoveryPlan(raw) ==
  LET steps == [i \in 1..Len(raw.steps) |-> RecoveryStep(raw.steps[i], i - 1)]
  IN  [taskType |-> parseTaskType(raw.taskType),
       steps |-> steps,
       requiredFiles |-> IF raw.requiredIsArray THEN raw.requiredFiles ELSE <<>>,
       affectedFiles |-> WithoutTerminal(IF raw.affectedIsArray THEN raw.affectedFiles ELSE <<>>,
                                         steps, 1),
       confidence |-> IF raw.confidence = <<>> \/ raw.confidence = <<0>> THEN 70 ELSE raw.confidence[1],
       risks |-> <<>>]

\* step.operation.type of a step without operation, and .map of a steps
\* value that is not an array, throw a TypeError
RecoveryThrows(raw) ==
  \/ ~raw.stepsIsArray
  \/ \E i \in 1..Len(raw.steps) : ~raw.steps[i].hasOp

\* Lines 1056-1110: what analyzeTerminalFailures returns once
\* parseYAMLWithTechnician has resolved with 'result'
Conclude(result) ==
  /\ recPc' = "returned"
  /\ recParsed' = result
  /\ recResult' =
       IF result.kind = "null" THEN Verdict(FALSE, "failed")
       ELSE IF result.kind = "scalar" THEN Verdict(FALSE, "default")
       ELSE IF result.rec.needsRetry = "true" /\ result.rec.hasPlan
            THEN IF RecoveryThrows(result.rec.plan) THEN Verdict(FALSE, "failed")
                 ELSE [needsRetry |-> TRUE, analysis |-> "model", hasPlan |-> TRUE,
                       plan |-> RecoveryPlan(result.rec.plan)]
       ELSE Verdict(result.rec.needsRetry = "true", "model")

\* An analysis that asks the collaborator whatever the exit codes are
RecStartAlwaysAsks ==
  /\ entry = "recover" /\ recPc = "start"
  /\ recPc' = "awaitAnalysis"
  /\ recCalls' = [recCalls EXCEPT !.analysis = @ + 1]
  /\ UNCHANGED <<transcripts, recResult, recParsed>> /\ UNCHANGED otherThanRec

\* Lines 930-1035: no failed transcript returns at once; otherwise the
\* failure-analysis prompt is sent to the collaborator
RecStart ==
  /\ entry = "recover" /\ recPc = "start"
  /\ IF \A i \in 1..Len(transcripts) : transcripts[i] = <<0>>
     THEN /\ recPc' = "returned"
          /\ recResult' = Verdict(FALSE, "succeeded")
          /\ UNCHANGED recCalls
     ELSE /\ recPc' = "awaitAnalysis"
          /\ recCalls' = [recCalls EXCEPT !.analysis = @ + 1]
          /\ UNCHANGED recResult
  /\ UNCHANGED <<transcripts, recParsed>> /\ UNCHANGED otherThanRec

\* An analysis that sends the request again when it failed
RecGenerateRejectRetries ==
  /\ entry = "recover" /\ recPc = "awaitAnalysis"
  /\ recCalls.analysis < 2
  /\ recCalls' = [recCalls EXCEPT !.analysis = @ + 1]
  /\ UNCHANGED <<recPc, transcripts, recResult, recParsed>> /\ UNCHANGED otherThanRec

\* Lines 1104-1110: the analysis call rejected
RecGenerateReject ==
  /\ entry = "recover" /\ recPc = "awaitAnalysis"
  /\ recPc' = "returned"
  /\ recParsed' = Rejected
  /\ recResult' = Verdict(FALSE, "failed")
  /\ UNCHANGED <<transcripts, recCalls>> /\ UNCHANGED otherThanRec

\* Lines 1037-1103 with the strict stage of parseYAMLWithTechnician
RecRespond ==
  /\ entry = "recover" /\ recPc = "awaitAnalysis"
  /\ \E result \in AnalysisResults :
       IF result.kind = "null"
       THEN /\ recPc' = "awaitYamlRepair"
            /\ recCalls' = [recCalls EXCEPT !.repair = @ + 1]
            /\ UNCHANGED <<recResult, recParsed>>
       ELSE Conclude(result) /\ UNCHANGED recCalls
  /\ UNCHANGED transcripts /\ UNCHANGED otherThanRec

\* The repair call of parseYAMLWithTechnician resolved
RecRepairResolve ==
  /\ entry = "recover" /\ recPc = "awaitYamlRepair"
  /\ \E result \in AnalysisResults : Conclude(result)
  /\ UNCHANGED <<transcripts, recCalls>> /\ UNCHANGED otherThanRec

RecInit ==
  /\ recPc = "start"
  /\ transcripts \in SeqsUpTo(ExitCodes, MaxTranscripts)
  /\ recResult = RecNoResult
  /\ recParsed = NotParsed
  /\ recCalls = NoRecCalls

RecIdle ==
  /\ recPc = "idle"
  /\ transcripts = <<>>
  /\ recResult = RecNoResult
  /\ recParsed = NotParsed
  /\ recCalls = NoRecCalls

\* ------------------------------------------- TerminalManager.executeCommand
TimeoutMs == 100

Pending == [kind |-> "pending", result |-> NoData, code |-> <<>>, timeout |-> 0]

\* The promise settles once: resolve and reject of a settled promise do
\* nothing
Settle(current, settled) == IF current.kind = "pending" THEN settled ELSE current

NothingEmitted ==
  [stdout |-> [lines |-> 0, open |-> FALSE], stderr |-> [lines |-> 0, open |-> FALSE]]

\* The line number the next 'data' chunk of a stream starts with: the rest
\* of the unfinished line, or a new line
NextLine(written) == IF written.open THEN written.lines ELSE written.lines + 1

\* Whether a chunk of k pieces may stop in the middle of its last line: the
\* stream cuts a line between two chunks, at most once per line
MayStopInside(written, k) == ~(written.open /\ k = 1)

\* A 'data' chunk of k pieces, the first of them (part of) line number
\* 'first' of its stream; blank[i] says that the i-th piece is empty or white
\* space; what split('\n').filter(l => l.trim()) gives
ChunkLines(first, blank) ==
  Pick([i \in 1..Len(blank) |-> first + i - 1], {i \in 1..Len(blank) : ~blank[i]}, 1)

\* A handler that passes the lines of a chunk to onOutput last line first
CallbacksReversed(log, type, lines) ==
  log \o [i \in 1..Len(lines) |-> [type |-> type, line |-> lines[Len(lines) + 1 - i]]]

\* lines.forEach(line => { ...; onOutput?.(type, line) })
Callbacks(log, type, lines) ==
  log \o [i \in 1..Len(lines) |-> [type |-> type, line |-> lines[i]]]

\* Lines 1153-1180: the process is spawned, the handlers are registered and
\* the timer is set when cmd.timeout is truthy
ExecStart ==
  /\ entry = "exec" /\ child = "none" /\ outcome = Pending
  /\ child' = "running"
  /\ timeoutHandle' = IF cmd.timeout # 0 THEN "armed" ELSE "none"
  /\ UNCHANGED <<cmd, hasCallback, childEnds, exitCode, timedOut, emitted, stdout, stderr,
                 callbackLog, outcome>>
  /\ UNCHANGED otherThanEx

\* Lines 1176-1179: the timer callback
TimerFires ==
  /\ entry = "exec" /\ timeoutHandle = "armed"
  /\ timeoutHandle' = "fired"
  /\ timedOut' = TRUE
  /\ UNCHANGED <<cmd, hasCallback, childEnds, child, exitCode, emitted, stdout, stderr,
                 callbackLog, outcome>>
  /\ UNCHANGED otherThanEx

\* Lines 1183-1189: a 'data' event of the child's stdout
StdoutData ==
  /\ entry = "exec" /\ child = "running" /\ NextLine(emitted.stdout) <= MaxOutput
  /\ \E k \in 1..(MaxOutput - NextLine(emitted.stdout) + 1) :
     \E blank \in [1..k -> BOOLEAN], inside \in BOOLEAN :
       LET first == NextLine(emitted.stdout)
           lines == ChunkLines(first, blank)
       IN  /\ inside => MayStopInside(emitted.stdout, k)
           /\ emitted' = [emitted EXCEPT !.stdout = [lines |-> first + k - 1, open |-> inside]]
           /\ stdout' = stdout \o lines
           /\ callbackLog' = IF hasCallback THEN Callbacks(callbackLog, "stdout", lines)
                             ELSE callbackLog
  /\ UNCHANGED <<cmd, hasCallback, childEnds, child, exitCode, timeoutHandle, timedOut,
                 stderr, outcome>>
  /\ UNCHANGED otherThanEx

\* Lines 1192-1198: a 'data' event of the child's stderr
StderrData ==
  /\ entry = "exec" /\ child = "running" /\ NextLine(emitted.stderr) <= MaxOutput
  /\ \E k \in 1..(MaxOutput - NextLine(emitted.stderr) + 1) :
     \E blank \in [1..k -> BOOLEAN], inside \in BOOLEAN :
       LET first == NextLine(emitted.stderr)
           lines == ChunkLines(first, blank)
       IN  /\ inside => MayStopInside(emitted.stderr, k)
           /\ emitted' = [emitted EXCEPT !.stderr = [lines |-> first + k - 1, open |-> inside]]
           /\ stderr' = stderr \o lines
           /\ callbackLog' = IF hasCallback THEN Callbacks(callbackLog, "stderr", lines)
                             ELSE callbackLog
  /\ UNCHANGED <<cmd, hasCallback, childEnds, child, exitCode, timeoutHandle, timedOut,
                 stdout, outcome>>
  /\ UNCHANGED otherThanEx

\* Lines 1207-1223: what the 'close' handler settles the promise with
Completion(code) ==
  IF code = <<0>>
  THEN [kind |-> "resolved",
        result |-> [stdout |-> stdout, stderr |-> stderr, exitCode |-> code,
                    timedOut |-> timedOut],
        code |-> code, timeout |-> 0]
  ELSE IF timedOut
       THEN [kind |-> "timeout", result |-> NoData, code |-> <<>>, timeout |-> cmd.timeout]
  ELSE [kind |-> "exit", result |-> NoData, code |-> code, timeout |-> 0]

\* Lines 1201-1224: the 'close' event of the child process
ChildClose ==
  /\ entry = "exec" /\ child = "running" /\ childEnds
  /\ \E code \in ExitCodes :
       /\ exitCode' = code
       /\ outcome' = Settle(outcome, Completion(code))
  /\ child' = "closed"
  /\ timeoutHandle' = IF timeoutHandle = "armed" THEN "cleared" ELSE timeoutHandle
  /\ UNCHANGED <<cmd, hasCallback, childEnds, timedOut, emitted, stdout, stderr, callbackLog>>
  /\ UNCHANGED otherThanEx

\* Lines 1226-1232: the 'error' event of a process that could not be spawned
ChildError ==
  /\ entry = "exec" /\ child = "running"
  /\ emitted = NothingEmitted
  /\ child' = "failed"
  /\ timeoutHandle' = IF timeoutHandle = "armed" THEN "cleared" ELSE timeoutHandle
  /\ outcome' = Settle(outcome, [kind |-> "error", result |-> NoData, code |-> <<>>,
                                 timeout |-> 0])
  /\ UNCHANGED <<cmd, hasCallback, childEnds, exitCode, timedOut, emitted, stdout, stderr,
                 callbackLog>>
  /\ UNCHANGED otherThanEx

ExInit ==
  /\ cmd \in [timeout : {0, TimeoutMs}]
  /\ hasCallback \in BOOLEAN
  /\ childEnds \in BOOLEAN
  /\ child = "none"
  /\ exitCode = <<>>
  /\ timeoutHandle = "none"
  /\ timedOut = FALSE
  /\ emitted = NothingEmitted
  /\ stdout = <<>>
  /\ stderr = <<>>
  /\ callbackLog = <<>>
  /\ outcome = Pending

ExIdle ==
  /\ cmd = [timeout |-> 0]
  /\ hasCallback = FALSE
  /\ childEnds = FALSE
  /\ child = "idle"
  /\ exitCode = <<>>
  /\ timeoutHandle = "none"
  /\ timedOut = FALSE
  /\ emitted = NothingEmitted
  /\ stdout = <<>>
  /\ stderr = <<>>
  /\ callbackLog = <<>>
  /\ outcome = Pending

\* ----------------------------------------------------- TerminalApprovalPanel
\* Lines 39-47: the record requestApproval stores; null is <<>>
Command(id) ==
  [id |-> id, outputLines |-> <<>>, isRunning |-> FALSE, exitCode |-> <<>>, duration |-> <<>>]

NoRun == [id |-> 0, phase |-> "none", lines |-> <<>>]

\* A resolve function that replaces the value of a settled promise
ResolveRequestOverwrites(reqs, id, value) == [reqs EXCEPT ![id] = value]

\* currentCommand.resolve(value): the promise of call 'id' settles once
ResolveRequest(reqs, id, value) ==
  IF reqs[id] = "pending" THEN [reqs EXCEPT ![id] = value] ELSE reqs

\* Lines 504-517: the buttons getWebviewContent renders
Buttons(command) ==
  IF ~command.isRunning /\ command.exitCode = <<>> THEN "decide"
  ELSE IF command.exitCode # <<>> THEN "close"
  ELSE "none"

\* Lines 173-176: updateContent renders only with a panel and a command
updateContent(pan, current, rendered) ==
  IF pan = "none" \/ current = <<>> THEN rendered ELSE Buttons(current[1])

\* The requester is inside the lifecycle of an approved command
Active == run.phase \in {"approved", "running"}

\* The lifecycle is followed up only while the requester keeps to it
Track(followed, strayed) == IF strayed THEN NoRun ELSE followed

\* The (exitCode, duration) pairs markComplete is called with
Completions == {<<0, 10>>, <<1, 20>>}

\* panel.dispose() with 'current' as this.currentCommand: the listener of
\* lines 133-140 and the listeners of waitForUserToClose (104-107) run
DisposePanel(current, reqs) ==
  LET discard == current # <<>> /\ ~current[1].isRunning
  IN  /\ panel' = "none"
      /\ buttons' = "none"
      /\ currentCommand' = IF discard THEN <<>> ELSE current
      /\ requests' = IF discard THEN ResolveRequest(reqs, current[1].id, "false") ELSE reqs
      /\ waiters' = [w \in 1..Len(waiters) |->
                       IF waiters[w].listening
                       THEN [waiters[w] EXCEPT !.state = "resolved", !.listening = FALSE]
                       ELSE waiters[w]]

\* Lines 35-52 with createOrShowPanel (117-171) and updateContent
RequestApproval ==
  /\ entry = "panel" /\ Len(requests) < MaxRequests
  /\ currentCommand' = <<Command(Len(requests) + 1)>>
  /\ requests' = Append(requests, "pending")
  /\ panel' = "open"
  /\ buttons' = "decide"
  /\ stray' = (stray \/ Active \/ \E k \in 1..Len(requests) : requests[k] = "pending")
  /\ run' = Track(IF run.phase = "complete" THEN NoRun ELSE run, stray')
  /\ UNCHANGED <<approvals, waiters>>
  /\ UNCHANGED otherThanPanel

\* Lines 57-62: addOutput
AddOutput ==
  /\ entry = "panel"
  /\ Len(run.lines) < MaxPanelLines
  /\ currentCommand # <<>> => Len(currentCommand[1].outputLines) < MaxPanelLines
  /\ stray' = (stray \/ ~Active)
  /\ LET text == IF currentCommand # <<>> THEN Len(currentCommand[1].outputLines) + 1
                 ELSE Len(run.lines) + 1
     IN  /\ currentCommand' = IF currentCommand # <<>>
                              THEN <<[currentCommand[1] EXCEPT !.outputLines = Append(@, text)]>>
                              ELSE currentCommand
         /\ run' = Track([run EXCEPT !.lines = Append(@, text)], stray')
  /\ UNCHANGED <<panel, buttons, requests, approvals, waiters>>
  /\ UNCHANGED otherThanPanel

\* Lines 67-72: markRunning
MarkRunning ==
  /\ entry = "panel"
  /\ currentCommand' = IF currentCommand # <<>>
                       THEN <<[currentCommand[1] EXCEPT !.isRunning = TRUE]>>
                       ELSE currentCommand
  /\ buttons' = updateContent(panel, currentCommand', buttons)
  /\ stray' = (stray \/ run.phase # "approved")
  /\ run' = Track([run EXCEPT !.phase = "running"], stray')
  /\ UNCHANGED <<panel, requests, approvals, waiters>>
  /\ UNCHANGED otherThanPanel

\* Lines 77-84: markComplete(exitCode, duration)
MarkComplete ==
  /\ entry = "panel"
  /\ \E completion \in Completions :
       currentCommand' = IF currentCommand # <<>>
                         THEN <<[currentCommand[1] EXCEPT !.isRunning = FALSE,
                                                          !.exitCode = <<completion[1]>>,
                                                          !.duration = <<completion[2]>>]>>
                         ELSE currentCommand
  /\ buttons' = updateContent(panel, currentCommand', buttons)
  /\ stray' = (stray \/ run.phase # "running")
  /\ run' = Track([run EXCEPT !.phase = "complete"], stray')
  /\ UNCHANGED <<panel, requests, approvals, waiters>>
  /\ UNCHANGED otherThanPanel

\* Lines 145-149: the 'approve' message of the Run Command button
Approve ==
  /\ entry = "panel" /\ panel = "open" /\ buttons = "decide"
  /\ IF currentCommand # <<>>
     THEN LET id == currentCommand[1].id
          IN  /\ requests' = ResolveRequest(requests, id, "true")
              /\ approvals' = approvals \cup {id}
              /\ run' = Track(IF requests[id] = "pending"
                              THEN [id |-> id, phase |-> "approved", lines |-> <<>>]
                              ELSE run, stray)
     ELSE UNCHANGED <<requests, approvals, run>>
  /\ UNCHANGED <<panel, currentCommand, buttons, stray, waiters>>
  /\ UNCHANGED otherThanPanel

\* Lines 150-156: the 'reject' message of the Reject button
Reject ==
  /\ entry = "panel" /\ panel = "open" /\ buttons = "decide"
  /\ IF currentCommand # <<>>
     THEN LET id == currentCommand[1].id
              resolved == ResolveRequest(requests, id, "false")
          IN  DisposePanel(<<>>, resolved)
     ELSE UNCHANGED <<panel, currentCommand, buttons, requests, waiters>>
  /\ UNCHANGED <<approvals, run, stray>>
  /\ UNCHANGED otherThanPanel

\* Lines 157-159: the 'close' message of the Close button
Close ==
  /\ entry = "panel" /\ panel = "open" /\ buttons = "close"
  /\ DisposePanel(currentCommand, requests)
  /\ UNCHANGED <<approvals, run, stray>>
  /\ UNCHANGED otherThanPanel

\* The user closes the editor tab of the panel: onDidDispose (133-140)
UserClosesTab ==
  /\ entry = "panel" /\ panel = "open"
  /\ DisposePanel(currentCommand, requests)
  /\ UNCHANGED <<approvals, run, stray>>
  /\ UNCHANGED otherThanPanel

\* Lines 96-115: waitForUserToClose is called
WaitForUserToClose ==
  /\ entry = "panel" /\ Len(waiters) < MaxWaits
  /\ waiters' = Append(waiters,
                       IF panel = "none"
                       THEN [state |-> "resolved", listening |-> FALSE, timer |-> "none"]
                       ELSE [state |-> "pending", listening |-> TRUE, timer |-> "armed"])
  /\ UNCHANGED <<panel, currentCommand, buttons, requests, approvals, run, stray>>
  /\ UNCHANGED otherThanPanel

\* A ceiling timer that stops listening without resolving
CeilingTimerStopsListening ==
  /\ entry = "panel"
  /\ \E w \in 1..Len(waiters) :
       /\ waiters[w].timer = "armed"
       /\ waiters' = [waiters EXCEPT ![w].timer = "fired", ![w].listening = FALSE]
  /\ UNCHANGED <<panel, currentCommand, buttons, requests, approvals, run, stray>>
  /\ UNCHANGED otherThanPanel

\* Lines 110-113: the 2 minute timer of a waitForUserToClose call fires
CeilingTimerFires ==
  /\ entry = "panel"
  /\ \E w \in 1..Len(waiters) :
       /\ waiters[w].timer = "armed"
       /\ waiters' = [waiters EXCEPT ![w].timer = "fired", ![w].listening = FALSE,
                                     ![w].state = "resolved"]
  /\ UNCHANGED <<panel, currentCommand, buttons, requests, approvals, run, stray>>
  /\ UNCHANGED otherThanPanel

PanelIdle ==
  /\ panel = "none"
  /\ currentCommand = <<>>
  /\ buttons = "none"
  /\ requests = <<>>
  /\ approvals = {}
  /\ run = NoRun
  /\ stray = FALSE
  /\ waiters = <<>>

\* -------------------------------------------------------------- N2Controller
\* Line 746: the default quality threshold 9.0, in hundredths
qualityThreshold == 900

\* The values a synthesis can carry; code is <<>> when it is missing
Scores == {850, 900, 950}
Syntheses(k) == [success : BOOLEAN, qualityScore : Scores, code : {<<>>, <<k>>}]

NoN2Result == [success |-> FALSE, output |-> <<>>, qualityScore |-> 0, iterations |-> 0]

\* A quality test that looks at the score alone
QualityMetByScore(synthesis) == synthesis.qualityScore >= qualityThreshold

\* Line 785: the test that ends the loop with success
QualityMet(synthesis) == synthesis.success /\ synthesis.qualityScore >= qualityThreshold

\* Lines 749-763: execute is called; the first iteration starts its agents
N2Execute ==
  /\ entry = "n2" /\ n2Pc = "constructed"
  /\ n2I' = 0
  /\ history' = <<>>
  /\ currentRepairDirective' = 0
  /\ n2Pc' = "agents"
  /\ UNCHANGED <<maxIterations, n2Result>>
  /\ UNCHANGED otherThanN2

\* Lines 763-772: Promise.all of the agents' analyses settles
N2AgentsSettle ==
  /\ entry = "n2" /\ n2Pc = "agents"
  /\ \E resolved \in BOOLEAN : n2Pc' = IF resolved THEN "synthesis" ELSE "rejected"
  /\ UNCHANGED <<maxIterations, n2I, history, currentRepairDirective, n2Result>>
  /\ UNCHANGED otherThanN2

\* Lines 774-816: synthesize settles; the rest of the iteration, the loop
\* test and, past the loop, the final return
N2SynthesisSettle ==
  /\ entry = "n2" /\ n2Pc = "synthesis"
  /\ \/ /\ n2Pc' = "rejected"
        /\ UNCHANGED <<n2I, history, currentRepairDirective, n2Result>>
     \/ \E synthesis \in Syntheses(n2I + 1) :
          LET pushed == Append(history, synthesis)
              lastSynthesis == pushed[Len(pushed)]
          IN  /\ history' = pushed
              /\ IF QualityMet(synthesis)
                 THEN /\ n2Result' = [success |-> TRUE, output |-> synthesis.code,
                                      qualityScore |-> synthesis.qualityScore,
                                      iterations |-> n2I + 1]
                      /\ n2Pc' = "returned"
                      /\ UNCHANGED <<n2I, currentRepairDirective>>
                 ELSE /\ currentRepairDirective' =
                           IF n2I < maxIterations - 1 THEN n2I + 1 ELSE currentRepairDirective
                      /\ n2I' = n2I + 1
                      /\ IF n2I + 1 < maxIterations
                         THEN n2Pc' = "agents" /\ UNCHANGED n2Result
                         ELSE /\ n2Result' = [success |-> FALSE, output |-> lastSynthesis.code,
                                              qualityScore |-> lastSynthesis.qualityScore,
                                              iterations |-> maxIterations]
                              /\ n2Pc' = "returned"
  /\ UNCHANGED maxIterations
  /\ UNCHANGED otherThanN2

\* Lines 744-747 and 854: a controller as the extension constructs it
N2Idle ==
  /\ n2Pc = "constructed"
  /\ maxIterations = 4
  /\ n2I = 0
  /\ history = <<>>
  /\ currentRepairDirective = 0
  /\ n2Result = NoN2Result

\* ---------------------------------------------------------- specification
Init ==
  \/ entry = "md" /\ MdInit /\ PlanIdle /\ RecIdle /\ NfIdle /\ VrIdle /\ ExIdle /\ PanelIdle /\ N2Idle
  \/ entry = "plan" /\ PlanInit /\ MdIdle /\ RecIdle /\ NfIdle /\ VrIdle /\ ExIdle /\ PanelIdle /\ N2Idle
  \/ entry = "recover" /\ RecInit /\ MdIdle /\ PlanIdle /\ NfIdle /\ VrIdle /\ ExIdle /\ PanelIdle /\ N2Idle
  \/ entry = "normalize" /\ NfInit /\ MdIdle /\ PlanIdle /\ RecIdle /\ VrIdle /\ ExIdle /\ PanelIdle /\ N2Idle
  \/ entry = "validate" /\ VrInit /\ MdIdle /\ PlanIdle /\ RecIdle /\ NfIdle /\ ExIdle /\ PanelIdle /\ N2Idle

Next ==
  \/ MdStart
  \/ MdRepairResolve
  \/ MdRepairReject
  \/ PlanGenerate
  \/ PlanGenerateReject
  \/ PlanRespond
  \/ PlanRespondRecord
  \/ YamlRepairResolve
  \/ YamlRepairReject
  \/ RecStart
  \/ RecGenerateReject
  \/ RecRespond
  \/ RecRepairResolve
  \/ NormalizeCall
  \/ ValidateFirst
  \/ ValidateAgain

Spec == Init /\ [][Next]_vars

\* executeCommand with its environment: the event loop runs a due timer
\* callback, and a child process that ends has its 'close' event delivered
ExecInit ==
  entry = "exec" /\ ExInit /\ MdIdle /\ PlanIdle /\ RecIdle /\ NfIdle /\ VrIdle /\ PanelIdle
                 /\ N2Idle

ExecNext ==
  \/ ExecStart
  \/ TimerFires
  \/ StdoutData
  \/ StderrData
  \/ ChildClose
  \/ ChildError

ExecSpec ==
  /\ ExecInit /\ [][ExecNext]_vars
  /\ WF_vars(ExecStart) /\ WF_vars(TimerFires) /\ WF_vars(ChildClose)

\* The approval panel with its requester and its user: the event loop runs
\* a due timer callback
PanelInit ==
  entry = "panel" /\ PanelIdle /\ MdIdle /\ PlanIdle /\ RecIdle /\ NfIdle /\ VrIdle /\ ExIdle
                  /\ N2Idle

PanelNext ==
  \/ RequestApproval
  \/ AddOutput
  \/ MarkRunning
  \/ MarkComplete
  \/ Approve
  \/ Reject
  \/ Close
  \/ UserClosesTab
  \/ WaitForUserToClose
  \/ CeilingTimerFires

PanelSpec == PanelInit /\ [][PanelNext]_vars /\ WF_vars(CeilingTimerFires)

\* The N2 loop with agents and a synthesizer whose promises settle
N2Init ==
  /\ entry = "n2" /\ MdIdle /\ PlanIdle /\ RecIdle /\ NfIdle /\ VrIdle /\ ExIdle /\ PanelIdle
  /\ n2Pc = "constructed"
  /\ maxIterations \in 1..MaxIterations
  /\ n2I = 0
  /\ history = <<>>
  /\ currentRepairDirective = 0
  /\ n2Result = NoN2Result

N2Next ==
  \/ N2Execute
  \/ N2AgentsSettle
  \/ N2SynthesisSettle

N2Spec ==
  /\ N2Init /\ [][N2Next]_vars
  /\ WF_vars(N2AgentsSettle) /\ WF_vars(N2SynthesisSettle)

\* ----------------------------------------------------------------- claims
Tier1Succeeded == parserCalls >= 1 /\ mdTier1.success /\ mdTier1.hasData

\* C1: whenever the direct parse of the raw text succeeds, neither
\* repairMarkdown nor llmProvider.generate is ever invoked in that call, the
\* parser ran once, and the value returned is the data of the direct parse.
C1_DirectParseShortCircuits ==
  (entry = "md" /\ Tier1Succeeded) =>
    /\ repairMarkdownCalls = 0
    /\ generateCalls = 0
    /\ parserCalls = 1
    /\ mdPc = "returned"
    /\ mdReturned = [isNull |-> FALSE, data |-> mdTier1.data]

C1_Witness ==
  /\ entry = "md" /\ mdParser = "agent" /\ mdPc = "returned"
  /\ Tier1Succeeded
  /\ mdReturned.data.insights = <<1>>
  /\ mdReturned.data.confidence = <<92>>

PlanSteps == planResult.plan.steps

\* C2: in planOperations the lenient extractor runs only when the
\* strict+repair stage resolved without a record, the fallback plan is built
\* only after the lenient extractor returned null or no step, and a plan of
\* an earlier tier is returned with no later tier invoked.
C2_TierOrder ==
  entry = "plan" =>
    /\ calls.lenient <= 1 /\ calls.fallback <= 1
    /\ calls.lenient > 0 => (planParsed.kind # "object" /\ calls.yamlStrict >= 1)
    /\ calls.fallback > 0 => (calls.lenient = 1 /\ planLenient \in {"threw", "null"})
    /\ planResult.tier \in {"strict", "repair"} =>
         (planParsed.kind = "object" /\ calls.lenient = 0 /\ calls.fallback = 0)
    /\ planResult.tier = "strict" => calls.yamlRepair = 0
    /\ planResult.tier = "lenient" =>
         (calls.lenient = 1 /\ calls.fallback = 0 /\ planLenient = "steps")
    /\ planResult.tier = "fallback" => calls.fallback = 1

C2_Witness ==
  /\ entry = "plan" /\ planPc = "returned"
  /\ planResult.tier = "fallback"
  /\ calls.yamlStrict = 2 /\ calls.yamlRepair = 1
  /\ calls.lenient = 1 /\ planLenient = "null"

\* C3: in one run of parseMarkdownWithTechnician the repair collaborator is
\* called at most once and the parser at most twice; a repaired text that
\* does not parse and a failed repair call both end the run.
C3_AtMostOneRepair ==
  /\ generateCalls <= 1
  /\ repairMarkdownCalls <= 1
  /\ parserCalls <= 2
  /\ parserCalls = 2 => (generateCalls = 1 /\ mdPc = "returned")
  /\ mdRepair \in {"rejected", "threwEarly"} => (parserCalls = 1 /\ mdPc = "returned")

C3_Witness ==
  /\ entry = "md" /\ mdPc = "returned"
  /\ parserCalls = 2 /\ generateCalls = 1
  /\ mdRepair = "resolved" /\ mdReturned.isNull

\* C4: a failure inside a tier does not escape as an exception: after a
\* failed repair call parseMarkdownWithTechnician has returned null, and
\* after an internal error of the lenient extractor planOperations has
\* returned the fallback plan.
C4_TierFailuresContained ==
  /\ mdPc # "threw"
  /\ mdRepair \in {"rejected", "threwEarly"} => (mdPc = "returned" /\ mdReturned.isNull)
  /\ planLenient = "threw" =>
       (planPc = "returned" /\ planResult.tier = "fallback" /\ calls.fallback = 1)

C4_Witness ==
  /\ entry = "md" /\ mdPc = "returned"
  /\ mdRepair = "rejected" /\ generateCalls = 1 /\ parserCalls = 1
  /\ mdReturned.isNull

C4_WitnessLenient ==
  /\ entry = "plan" /\ planPc = "returned"
  /\ planLenient = "threw" /\ planResult.tier = "fallback"

\* The section headers and metadata labels each strict parser looks for
SectionNames(kind) ==
  CASE kind = "agent" -> {"INSIGHTS", "CRITICAL", "WARNING", "WARNINGS", "SUGGESTION",
                          "SUGGESTIONS", "RECOMMENDATION", "RECOMMENDATIONS"}
    [] kind = "observe" -> {"PATTERN", "PATTERNS", "CONFLICT", "CONFLICTS", "GAP", "GAPS"}
    [] kind = "distill" -> {"CORE REQUIREMENT", "CORE REQUIREMENTS", "KEY CONSTRAINT",
                            "KEY CONSTRAINTS", "IMPLEMENTATION PRINCIPLE",
                            "IMPLEMENTATION PRINCIPLES"}
    [] OTHER -> {}

SectionRecognized(kind, content) ==
  \E i \in 1..Len(content) :
    content[i].k \in {"h3", "h4"} /\ content[i].n \in SectionNames(kind)

RealParsers == {"agent", "observe", "distill"}

\* C5: a strict sectioned-markdown parser answers success=false for a text
\* in which none of its sections is recognised, and success=true for a text
\* in which at least one is.
C5_EmptyResultFails ==
  (entry = "md" /\ mdParser \in RealParsers /\ mdInput.isString /\ parserCalls >= 1) =>
    (mdTier1.success <=> SectionRecognized(mdParser, extractMarkdown(mdInput.lines)))

\* DELIMITER_CONTEXTS.*.expectedStructure.requiredFields
RequiredFields(kind) ==
  CASE kind = "agent" -> {"confidence", "relevance"}
    [] kind = "observe" -> {"qualityScore"}
    [] kind = "distill" -> {"qualityScore", "scoringRationale"}
    [] OTHER -> {}

\* C6: a result with success=true carries data in which every required
\* field of the schema has a defined value.
C6_RequiredFieldsDefined ==
  (entry = "md" /\ mdParser \in RealParsers /\ parserCalls >= 1 /\ mdTier1.success) =>
    \A f \in RequiredFields(mdParser) : mdTier1.data[f] # <<>>

NonTerminal(step) == step.operation.type # "terminal"

\* C7: in every plan planOperations returns, affectedFiles contains the
\* filePath of every step whose operation type is not 'terminal'.
C7_AffectedCoversSteps ==
  (entry = "plan" /\ planPc = "returned") =>
    \A i \in 1..Len(PlanSteps) :
      NonTerminal(PlanSteps[i]) => PlanSteps[i].filePath \in Range(planResult.plan.affectedFiles)

C7_Witness ==
  /\ entry = "plan" /\ planPc = "returned" /\ planResult.tier = "strict"
  /\ planParsed.rec.affectedFiles = <<PathAbsB>>
  /\ Len(PlanSteps) = 2
  /\ NonTerminal(PlanSteps[1]) /\ PlanSteps[1].filePath = <<"a">>
  /\ planResult.plan.affectedFiles = << <<"b">>, <<"a">> >>

\* C8: a path that is the filePath of terminal steps only is not in
\* affectedFiles, in any plan the system produces.
TerminalExcluded(plan) ==
  \A f \in Range(plan.affectedFiles) :
    (\E i \in 1..Len(plan.steps) : plan.steps[i].filePath = f)
      => (\E i \in 1..Len(plan.steps) : plan.steps[i].filePath = f /\ NonTerminal(plan.steps[i]))

C8_TerminalExcluded ==
  /\ (entry = "plan" /\ planPc = "returned") => TerminalExcluded(planResult.plan)
  /\ (entry = "recover" /\ recResult.hasPlan) => TerminalExcluded(recResult.plan)

Normalized == planResult.tier \in {"strict", "repair", "lenient"}

\* C9: the steps of every plan that went through validateAndRepairPlan are
\* in non-decreasing priority order.
C9_SortedByPriority ==
  (entry = "plan" /\ Normalized) =>
    \A i \in 1..(Len(PlanSteps) - 1) : PlanSteps[i].priority <= PlanSteps[i + 1].priority

C9_Witness ==
  /\ entry = "plan" /\ planResult.tier = "strict"
  /\ Len(planParsed.rec.steps) = 2
  /\ planParsed.rec.steps[1].hasOp /\ planParsed.rec.steps[1].priority = <<2>>
  /\ planParsed.rec.steps[2].hasOp /\ planParsed.rec.steps[2].priority = <<1>>
  /\ PlanSteps[1].src = 2 /\ PlanSteps[2].src = 1

\* C10: after normalization two steps of equal priority are in the order
\* they had in the input steps array.
C10_StableSort ==
  (entry = "plan" /\ Normalized) =>
    \A i, j \in 1..Len(PlanSteps) :
      (i < j /\ PlanSteps[i].priority = PlanSteps[j].priority) => PlanSteps[i].src < PlanSteps[j].src

C10_Witness ==
  /\ entry = "plan" /\ planResult.tier = "strict"
  /\ Len(PlanSteps) = 2
  /\ PlanSteps[1].priority = PlanSteps[2].priority
  /\ planParsed.rec.steps[1].priority = <<>> /\ planParsed.rec.steps[2].priority = <<1>>

\* A finalized plan handed back as the 'parsed' argument
AsRecord(plan) ==
  [taskType |-> plan.taskType,
   stepsIsArray |-> TRUE,
   steps |-> [i \in 1..Len(plan.steps) |->
                [hasOp |-> TRUE, opObject |-> TRUE,
                 filePath |-> plan.steps[i].filePath,
                 opFilePath |-> plan.steps[i].operation.filePath,
                 type |-> plan.steps[i].operation.type,
                 priority |-> <<plan.steps[i].priority>>,
                 requiresApproval |-> plan.steps[i].operation.requiresApproval,
                 src |-> plan.steps[i].src]],
   requiredIsArray |-> TRUE, requiredFiles |-> plan.requiredFiles,
   affectedIsArray |-> TRUE, affectedFiles |-> plan.affectedFiles,
   confidence |-> <<plan.confidence>>]

\* C11: normalizing a plan that validateAndRepairPlan returned gives the
\* same plan again: same paths, step order, priorities and affectedFiles.
C11_Idempotent ==
  (entry = "plan" /\ Normalized) =>
    validateAndRepairPlan(AsRecord(planResult.plan), TaskAnalysis, workspaceContext)
      = planResult.plan

\* Segments of an absolute path after "." and ".." are resolved
Segments(platform, p) == Resolve(Split(Body(platform, p), Seps(platform), 1, <<>>), 1, <<>>)

\* p is an absolute path located below the workspace root of ws
UnderRoot(ws, p) ==
  /\ ws.workspaceRoot # <<>>
  /\ isAbsolute(ws.platform, p)
  /\ Device(ws.platform, p) = Device(ws.platform, ws.workspaceRoot)
  /\ LET rs == Segments(ws.platform, ws.workspaceRoot)
         ps == Segments(ws.platform, p)
     IN  Len(ps) > Len(rs) /\ SubSeq(ps, 1, Len(rs)) = rs

\* C12: for an absolute path under the workspace root, normalizeFilePath
\* returns a path with no leading '/', no drive letter and no backslash.
C12_AbsoluteUnderRoot ==
  (entry = "normalize" /\ nfPc = "returned" /\ UnderRoot(nfContext, nfPath)) =>
    /\ nfResult # <<>> => nfResult[1] \notin ({"/"} \cup Drives)
    /\ "\\" \notin Range(nfResult)

PlanPaths(plan) ==
  {plan.steps[i].filePath : i \in 1..Len(plan.steps)}
  \cup {plan.steps[i].operation.filePath : i \in 1..Len(plan.steps)}
  \cup Range(plan.requiredFiles) \cup Range(plan.affectedFiles)

\* C13: every path of a normalized plan is workspace-relative, has no
\* backslash and no leading './', whatever form the input path had.
C13_PathsRelativeForward ==
  (entry = "plan" /\ Normalized) =>
    \A p \in PlanPaths(planResult.plan) :
      /\ ~isAbsolute(workspaceContext.platform, p)
      /\ "\\" \notin Range(p)
      /\ ~(Len(p) >= 2 /\ p[1] = "." /\ p[2] = "/")

FromRecord == planResult.tier \in {"strict", "repair"}

\* C14: the normalized plan has one step for each step of the parsed record
\* that has an operation object, and no other step.
C14_DropsExactlyOperationless ==
  (entry = "plan" /\ FromRecord) =>
    LET raw == planParsed.rec.steps
    IN  /\ {PlanSteps[i].src : i \in 1..Len(PlanSteps)}
             = {i \in 1..Len(raw) : raw[i].hasOp /\ raw[i].opObject}
        /\ Len(PlanSteps) = Cardinality({i \in 1..Len(raw) : raw[i].hasOp /\ raw[i].opObject})

\* C15 as stated: a step without numeric priority gets its position in the
\* steps array of the parsed record, counted from 1; a numeric priority is
\* kept.
C15_OriginalIndex ==
  (entry = "plan" /\ FromRecord) =>
    \A i \in 1..Len(PlanSteps) :
      LET raw == planParsed.rec.steps[PlanSteps[i].src]
      IN  PlanSteps[i].priority = IF raw.priority = <<>> THEN PlanSteps[i].src
                                  ELSE raw.priority[1]

\* C15 amended: a step without numeric priority gets its position among the
\* steps that were kept (those with an operation), counted from 1; a numeric
\* priority is kept.
C15_FilteredIndex ==
  (entry = "plan" /\ FromRecord) =>
    \A i \in 1..Len(PlanSteps) :
      LET raws == planParsed.rec.steps
          src == PlanSteps[i].src
      IN  PlanSteps[i].priority =
            IF raws[src].priority = <<>>
            THEN Cardinality({j \in 1..src : raws[j].hasOp})
            ELSE raws[src].priority[1]

C15_Witness ==
  /\ entry = "plan" /\ planResult.tier = "strict"
  /\ Len(planParsed.rec.steps) = 2
  /\ ~planParsed.rec.steps[1].hasOp
  /\ planParsed.rec.steps[2].hasOp /\ planParsed.rec.steps[2].priority = <<>>
  /\ Len(PlanSteps) = 1 /\ PlanSteps[1].src = 2 /\ PlanSteps[1].priority = 1

OperationTypes == {"create", "modify", "delete", "rename", "terminal"}

\* C16: every step of every plan produced (by planOperations in any tier,
\* or as a recovery plan) has an operation type among create, modify,
\* delete, rename and terminal.
C16_KnownOperationTypes ==
  /\ (entry = "plan" /\ planPc = "returned") =>
       \A i \in 1..Len(PlanSteps) : PlanSteps[i].operation.type \in OperationTypes
  /\ (entry = "recover" /\ recResult.hasPlan) =>
       \A i \in 1..Len(recResult.plan.steps) :
         recResult.plan.steps[i].operation.type \in OperationTypes

ApprovalSet(plan) ==
  \A i \in 1..Len(plan.steps) :
    plan.steps[i].operation.type = "terminal" =>
      plan.steps[i].operation.requiresApproval \in {"true", "false"}

\* C17: every terminal step of every plan produced has requiresApproval
\* true or false, never unset, and false only where the collaborator output
\* said false.
C17_TerminalApprovalSet ==
  /\ (entry = "plan" /\ planPc = "returned") =>
       /\ ApprovalSet(planResult.plan)
       /\ \A i \in 1..Len(PlanSteps) :
            PlanSteps[i].operation.requiresApproval = "false" =>
              (FromRecord /\ planParsed.rec.steps[PlanSteps[i].src].requiresApproval = "false")
  /\ (entry = "recover" /\ recResult.hasPlan) => ApprovalSet(recResult.plan)

\* C18: every plan returned by planOperations or carried as a recovery plan
\* has a confidence between 0 and 1 (0..100 in hundredths), and 0.7 when
\* the parsed record has no numeric confidence.
C18_ConfidenceInRange ==
  /\ (entry = "plan" /\ planPc = "returned") =>
       /\ planResult.plan.confidence \in 0..100
       /\ (FromRecord /\ planParsed.rec.confidence = <<>>) => planResult.plan.confidence = 70
  /\ (entry = "recover" /\ recResult.hasPlan) => recResult.plan.confidence \in 0..100

LenientRan == entry = "plan" /\ calls.lenient = 1 /\ planLenient # "threw"

\* The positions of the lines of text that contain 'filePath:', and the
\* k-th of them
Occurrences(text) == {i \in 1..Len(text) : text[i].k \in {"item", "fp", "anchor"}}

Occurrence(text, k) ==
  CHOOSE i \in Occurrences(text) : Cardinality({j \in Occurrences(text) : j <= i}) = k

OneStepPerOccurrence(text) ==
  LET n == Cardinality(Occurrences(text))
  IN  /\ planResult.tier = "lenient"
      /\ Len(PlanSteps) = n
      /\ \A k \in 1..n :
           /\ PlanSteps[k].priority = k
           /\ PlanSteps[k].src = k
           /\ text[Occurrence(text, k)].k # "anchor" =>
                PlanSteps[k].filePath
                  = normalizeFilePath(text[Occurrence(text, k)].p, workspaceContext)
           /\ (\A i \in 1..Len(text) : text[i].k \notin {"type", "taskType"}) =>
                PlanSteps[k].operation.type = "create"

C20_FallbackSingleStep ==
  (entry = "plan" /\ planResult.tier = "fallback") =>
    /\ Len(PlanSteps) = 1
    /\ PlanSteps[1].operation.type = "modify"
    /\ workspaceContext.currentFile # <<>>
    /\ PlanSteps[1].filePath = workspaceContext.currentFile
    /\ planResult.plan.confidence <= 50
    /\ planResult.plan.risks # <<>>

\* C21: planOperations never returns a plan without steps; when no tier
\* gives a usable step the call fails instead of returning.
C21_NeverReturnsEmptyPlan ==
  (entry = "plan" /\ planPc = "returned") => Len(PlanSteps) > 0

AllSucceeded == \A i \in 1..Len(transcripts) : transcripts[i] = <<0>>

\* C23: when every transcript has exit code 0 (or there is none),
\* analyzeTerminalFailures returns needsRetry false without a recovery plan
\* and makes no request to the collaborator; a request is made only when
\* some transcript has a non-zero or null exit code.
C23_NoRequestWhenAllSucceeded ==
  entry = "recover" =>
    /\ (recPc = "returned" /\ AllSucceeded) =>
         (recResult = Verdict(FALSE, "succeeded") /\ recCalls = NoRecCalls)
    /\ recCalls # NoRecCalls => ~AllSucceeded

C23_Witness ==
  /\ entry = "recover" /\ recPc = "returned"
  /\ Len(transcripts) = 2 /\ AllSucceeded
  /\ recResult = Verdict(FALSE, "succeeded")
  /\ recCalls = NoRecCalls

\* The workspace context analyzeTerminalFailures is called with
RecoveryContext == [platform |-> "posix", workspaceRoot |-> Root, currentFile |-> <<>>]

\* C24: every recovery plan returned by analyzeTerminalFailures has the
\* properties validateAndRepairPlan establishes: steps in non-decreasing
\* priority order, normalized paths, and affectedFiles containing the
\* filePath of every non-terminal step.
C24_RecoveryPlanValidated ==
  (entry = "recover" /\ recPc = "returned" /\ recResult.hasPlan) =>
    LET plan == recResult.plan
    IN  /\ \A i \in 1..(Len(plan.steps) - 1) :
             plan.steps[i].priority <= plan.steps[i + 1].priority
        /\ \A p \in PlanPaths(plan) : normalizeFilePath(p, RecoveryContext) = p
        /\ \A i \in 1..Len(plan.steps) :
             NonTerminal(plan.steps[i]) => plan.steps[i].filePath \in Range(plan.affectedFiles)

\* C25: when the analysis request fails or parseYAMLWithTechnician gives
\* nothing, analyzeTerminalFailures returns (it does not throw) needsRetry
\* false, no recovery plan and the 'Analysis failed: <message>' text, having
\* made exactly one analysis request.
C25_AnalysisFailureContained ==
  entry = "recover" =>
    /\ recPc \in {"start", "awaitAnalysis", "awaitYamlRepair", "returned"}
    /\ (recPc = "returned" /\ recParsed.kind \in {"rejected", "null"}) =>
         (recResult = Verdict(FALSE, "failed") /\ recCalls.analysis = 1)

C25_Witness ==
  /\ entry = "recover" /\ recPc = "returned"
  /\ recParsed = Rejected
  /\ recResult = Verdict(FALSE, "failed")
  /\ recCalls = [analysis |-> 1, repair |-> 0]

Settled == outcome.kind # "pending"

\* C26: when the timer fired before the child closed, executeCommand
\* settles as the timeout rejection carrying cmd.timeout, whatever exit code
\* the process reports afterwards, never as a success or an exit-code
\* failure.
C26_TimeoutSettlesAsTimeout ==
  (entry = "exec" /\ timedOut /\ child = "closed") =>
    (outcome.kind = "timeout" /\ outcome.timeout = cmd.timeout)

\* C27: after every 'close' of the child, with exit code zero or not, the
\* caller has the result record with the collected stdout and stderr lines,
\* the exit code and timedOut.
C27_ResultOnEveryExit ==
  (entry = "exec" /\ child = "closed") =>
    /\ outcome.kind = "resolved"
    /\ outcome.result = [stdout |-> stdout, stderr |-> stderr, exitCode |-> exitCode,
                         timedOut |-> timedOut]

\* C28: once the timeout has expired no line is appended to the stdout or
\* stderr array and onOutput is not called again.
C28_NoOutputAfterTimeout ==
  [][(entry = "exec" /\ timedOut) =>
       (stdout' = stdout /\ stderr' = stderr /\ callbackLog' = callbackLog)]_vars

\* C29: with a timeout configured, a started executeCommand eventually
\* settles, whether or not the child process ever closes.
C29_EventuallySettles ==
  (entry = "exec" /\ child = "running" /\ cmd.timeout # 0) ~> Settled

\* The lines of one stream among the onOutput calls, in call order
CalledWith(type) ==
  LET I == {i \in 1..Len(callbackLog) : callbackLog[i].type = type}
      picked == Pick(callbackLog, I, 1)
  IN  [i \in 1..Len(picked) |-> picked[i].line]

\* C30: for each stream, the lines passed to onOutput are in the order the
\* process wrote them and are, element by element, the lines of the result
\* array of that stream.
C30_CallbackOrderPerStream ==
  (entry = "exec" /\ hasCallback) =>
    /\ CalledWith("stdout") = stdout
    /\ CalledWith("stderr") = stderr
    /\ \A type \in {"stdout", "stderr"} :
         \A i \in 1..(Len(CalledWith(type)) - 1) :
           CalledWith(type)[i] <= CalledWith(type)[i + 1]

C30_Witness ==
  /\ entry = "exec" /\ hasCallback /\ child = "closed"
  /\ stdout = <<1, 2>> /\ stderr = <<1, 2>>
  /\ Len(callbackLog) = 4
  /\ callbackLog[1].type = "stderr" /\ callbackLog[2].type = "stdout"
  /\ callbackLog[3].type = "stdout" /\ callbackLog[4].type = "stderr"

\* C31: every onOutput call carries one complete line of the process
\* output: no line reaches the callback in two calls, however the stream is
\* cut into 'data' chunks.
C31_WholeLinesOnly ==
  (entry = "exec" /\ hasCallback) =>
    \A type \in {"stdout", "stderr"} :
      \A i, j \in 1..Len(CalledWith(type)) :
        CalledWith(type)[i] = CalledWith(type)[j] => i = j

\* The request of call k is the command the panel holds
Current(k) == currentCommand # <<>> /\ currentCommand[1].id = k

\* C32: a requestApproval promise is true only if 'approve' arrived while
\* its command was the current one; a reject, or the panel going away while
\* its command is current, undecided and not running, makes it false; a
\* settled promise keeps its value.
C32_ApprovalOutcome ==
  [][\A k \in 1..Len(requests) :
       /\ requests'[k] = "true" => k \in approvals'
       /\ (Current(k) /\ requests[k] = "pending" /\ ~currentCommand[1].isRunning
             /\ panel = "open" /\ panel' = "none") => requests'[k] = "false"
       /\ requests[k] # "pending" => requests'[k] = requests[k]]_vars

\* An approved command whose panel was closed before markRunning keeps
\* its approval
C32_Witness ==
  /\ entry = "panel" /\ ~stray
  /\ \E k \in 1..Len(requests) :
       /\ requests[k] = "true" /\ k \in approvals
       /\ run.id = k /\ run.phase = "approved"
       /\ panel = "none" /\ currentCommand = <<>>

\* C33: once markComplete has set exitCode and duration of a command, no
\* panel operation changes them and the command never runs again.
C33_CompletionSetOnce ==
  [][(/\ currentCommand # <<>> /\ currentCommand[1].exitCode # <<>>
      /\ currentCommand' # <<>> /\ currentCommand'[1].id = currentCommand[1].id)
       => /\ currentCommand'[1].exitCode = currentCommand[1].exitCode
          /\ currentCommand'[1].duration = currentCommand[1].duration
          /\ ~currentCommand'[1].isRunning]_vars

\* C34: whenever the panel has been disposed there is no command record,
\* also when it was closed while the command was running (stated for a
\* requester that follows the lifecycle of one command at a time).
C34_DiscardedWithPanel ==
  (entry = "panel" /\ ~stray /\ panel = "none") => currentCommand = <<>>

\* C35: a waitForUserToClose call made without a panel is resolved at once,
\* and every other call is resolved in the end, by the panel's disposal or
\* by the ceiling timer; no call is rejected.
C35_WaitResolves ==
  /\ [][Len(waiters') > Len(waiters) /\ panel = "none"
          => waiters'[Len(waiters')].state = "resolved"]_vars
  /\ [](\A w \in 1..Len(waiters) : waiters[w].state \in {"pending", "resolved"})
  /\ \A w \in 1..MaxWaits :
       (Len(waiters) >= w /\ waiters[w].state = "pending")
         ~> (Len(waiters) >= w /\ waiters[w].state = "resolved")

\* The ceiling timer resolved a call while the panel stayed open
C35_Witness ==
  /\ entry = "panel" /\ panel = "open"
  /\ \E w \in 1..Len(waiters) :
       waiters[w].state = "resolved" /\ waiters[w].timer = "fired"

\* C37: no request is left without a way to be resolved: when the user has
\* dismissed the panel and no command record is left, no requestApproval
\* promise is still pending, also when a second request was made while the
\* first one was pending.
C37_NoRequestLost ==
  (entry = "panel" /\ panel = "none" /\ currentCommand = <<>>)
    => \A k \in 1..Len(requests) : requests[k] # "pending"

\* C38: for a requester that calls markRunning, addOutput and markComplete
\* only for its approved command, each call takes effect whatever the user
\* does: markRunning shows the command running, each addOutput leaves the
\* lines written so far as the command's outputLines, markComplete leaves
\* the command completed.
C38_ApprovedRunRecorded ==
  [][(~stray' /\ Active) =>
       /\ (run.phase = "approved" /\ run'.phase = "running")
            => Current(run.id)' /\ currentCommand'[1].isRunning
       /\ run'.lines # run.lines
            => Current(run.id)' /\ currentCommand'[1].outputLines = run'.lines
       /\ run'.phase = "complete"
            => /\ Current(run.id)' /\ ~currentCommand'[1].isRunning
               /\ currentCommand'[1].exitCode # <<>>]_vars

\* Iteration k of the loop met the quality bar
Passing(k) == history[k].success /\ history[k].qualityScore >= 900

\* C36: the N2 loop runs at most maxIterations iterations and ends; it
\* returns success with iterations = k at the first iteration k whose
\* synthesis succeeded with a score of at least 9.0, after which no
\* iteration runs; with no such iteration it returns failure with
\* iterations = maxIterations and the output and score of the last synthesis.
C36_N2LoopBounded ==
  /\ [](entry = "n2" =>
         /\ Len(history) <= maxIterations
         /\ \A k \in 1..Len(history) : Passing(k) => k = Len(history) /\ n2Pc = "returned"
         /\ n2Pc = "returned" =>
              IF Passing(Len(history))
              THEN /\ n2Result.success /\ n2Result.iterations = Len(history)
                   /\ n2Result.output = history[Len(history)].code
              ELSE /\ ~n2Result.success /\ n2Result.iterations = maxIterations
                   /\ Len(history) = maxIterations
                   /\ n2Result.output = history[maxIterations].code
                   /\ n2Result.qualityScore = history[maxIterations].qualityScore)
  /\ (entry = "n2" /\ n2Pc # "constructed") ~> (n2Pc \in {"returned", "rejected"})

\* Success at the second iteration, after a first synthesis whose score was
\* high enough but which had not succeeded
C36_Witness ==
  /\ entry = "n2" /\ n2Pc = "returned"
  /\ n2Result.success /\ n2Result.iterations = 2 /\ maxIterations = 3
  /\ ~history[1].success /\ history[1].qualityScore >= 900

\* C39: analyzeTerminalFailures returns needsRetry true exactly when it
\* returns a recovery plan.
C39_RetryIffPlan ==
  (entry = "recover" /\ recPc = "returned") => (recResult.needsRetry <=> recResult.hasPlan)

====
